---- MODULE Spec2Model ----
(***************************************************************************)
(* A model of the procedural nebula generator                              *)
(* (tools/image_generation/create_nebula.py), of its command line tool and *)
(* of the background manager that runs it (src/utils/background.py).       *)
(*                                                                         *)
(* Floats are modelled in fixed point: positions in 1/PosQ pixel,          *)
(* intensities and densities in 1/IntQ, normalized densities in 1/NormQ.   *)
(* The process-wide generator of Python's random module is a state in      *)
(* 0..RngMod-1; a draw reads the state and advances it.                    *)
(***************************************************************************)
EXTENDS Integers, Sequences, FiniteSets, Bags, TLC

None == "None"
\* seed=None, and a generator nothing has seeded.
NoSeed == -1

\* ------------------------------------------------------------- bounds
\* Simulated particles per seed and steps per particle are capped.
MaxParticles == 2
MaxStepCap == 3
\* Number of states of the modelled random generator.
RngMod == 64

\* --------------------------------------------- fixed-point resolutions
PosQ == 4
IntQ == 1000000
NormQ == 100
HashMod == 16
TurbQ == 1024

\* ------------------------------------------------------------ helpers
Max(a, b) == IF a >= b THEN a ELSE b
Min(a, b) == IF a <= b THEN a ELSE b
Abs(a) == IF a >= 0 THEN a ELSE -a

\* Python's int() of the quotient a/b, b > 0: truncation toward zero.
TruncDiv(a, b) == IF a >= 0 THEN a \div b ELSE -((-a) \div b)

RECURSIVE Pow2(_)
Pow2(k) == IF k = 0 THEN 1 ELSE 2 * Pow2(k - 1)

\* floor(sqrt(n)) for 0 <= n, by bisection on lo..hi.
RECURSIVE ISqrtIn(_, _, _)
ISqrtIn(n, lo, hi) ==
    IF lo >= hi THEN lo
    ELSE LET mid == (lo + hi + 1) \div 2
         IN IF mid * mid <= n THEN ISqrtIn(n, mid, hi) ELSE ISqrtIn(n, lo, mid - 1)

ISqrt(n) == ISqrtIn(n, 0, 46340)

\* The pixels of a width x height raster, <<row, column>>, 0-based (numpy [y, x]).
Pixels(w, h) == (0 .. (h - 1)) \X (0 .. (w - 1))

\* ------------------------------------------------- the random module
\* random.seed(n): the state is a function of n alone.
RngSeed(n) == (n * 7 + 1) % RngMod
\* One draw advances the state.
RngNext(s) == (s * 5 + 3) % RngMod
\* random.randint(a, b), a <= b, drawn in state s: a value of a..b.
RandInt(s, a, b) == a + ((b - a + 1) * s) \div RngMod
\* random.uniform(0.8, 1.0) in 1/IntQ.
RandIntensity(s) == (8 * IntQ) \div 10 + (((2 * IntQ) \div 10) * s) \div RngMod
\* (random.random() - 0.5) * 1.0 in 1/PosQ pixel: a value of [-0.5, 0.5).
RandJitter(s) == (PosQ * s) \div RngMod - PosQ \div 2
\* random.choice(seq), len(seq) = n > 0: the chosen index, 1-based.
RandChoice(s, n) == 1 + (n * s) \div RngMod

\* ------------------------------------------------------------ noise
\* hash((a, b)) % 2**32 of a pair of ints: an integer mix of the two
\* coordinates, independent of the random module and of its seed.
HashPair(a, b) == (((a * 73 + b) * 37 + 11) * 5 + (a \div 3) + (b \div 7)) % HashMod

\* _noise_2d(x / size, y / size) with size = size0 / 2^k, as a numerator over
\* HashMod: a value of [-1, 1).
Noise2d(x, y, size0, k) ==
    LET ax == (x * Pow2(k) * 129898) \div (size0 * 10000)
        ay == (y * Pow2(k) * 78233) \div (size0 * 1000)
    IN 2 * HashPair(ax, ay) - HashMod

\* The octaves _turbulence visits for an initial size: size0 / 2^k >= 1.
RECURSIVE Octaves(_, _)
Octaves(size0, k) ==
    IF size0 < Pow2(k) THEN {} ELSE {k} \cup Octaves(size0, k + 1)

\* A sum of the signed noise values.
RECURSIVE TurbSumSigned(_, _, _, _)
TurbSumSigned(x, y, size0, k) ==
    IF size0 < Pow2(k) THEN 0
    ELSE TruncDiv(Noise2d(x, y, size0, k) * TurbQ, HashMod * Pow2(k))
         + TurbSumSigned(x, y, size0, k + 1)

\* _turbulence(x, y, size0) in 1/TurbQ: sum of |noise| * size over the octaves,
\* divided by the initial size.
RECURSIVE TurbSum(_, _, _, _)
TurbSum(x, y, size0, k) ==
    IF size0 < Pow2(k) THEN 0
    ELSE (Abs(Noise2d(x, y, size0, k)) * TurbQ) \div (HashMod * Pow2(k))
         + TurbSum(x, y, size0, k + 1)

Turbulence(x, y, size0) == TurbSum(x, y, size0, 0)

\* flow_scale = max(32.0, min(width, height) / 20), an integer for the
\* canvases of the model.
FlowScale(w, h) == Max(32, Min(w, h) \div 20)

\* cos and sin of angle = turbulence * 2 pi, in 1/1000, by octant.
CosTab == <<1000, 707, 0, -707, -1000, -707, 0, 707>>
SinTab == <<0, 707, 1000, 707, 0, -707, -1000, -707>>
Octant(t) == ((8 * t) \div TurbQ) % 8

\* _create_flow_field(scale): the whole field, one vector per pixel.
CreateFlowField(w, h, scale) ==
    [p \in Pixels(w, h) |->
        LET o == Octant(Turbulence(p[2], p[1], scale))
        IN [fx |-> CosTab[o + 1], fy |-> SinTab[o + 1]]]

\* -------------------------------------------------- the density field
\* A particle count without the floor of 200.
ParticlesPerSeedNoFloor(w, h) == 1000 - (w * h) \div 1000

\* particles_per_seed and max_steps of _create_density_field.
ParticlesPerSeed(w, h) == Max(200, 1000 - (w * h) \div 1000)
MaxSteps(w, h) == Max(50, 150 - (w * h) \div 5000)
\* What the model simulates of them.
SimParticles(w, h) == Min(MaxParticles, ParticlesPerSeed(w, h))
SimSteps(w, h) == Min(MaxStepCap, MaxSteps(w, h))

\* int(x) of a position held in 1/PosQ pixel.
PixelOf(q) == TruncDiv(q, PosQ)

\* A placement over the whole width and height, edges included.
RECURSIVE PlaceSeedsWholeCanvas(_, _, _, _)
PlaceSeedsWholeCanvas(r, n, w, h) ==
    IF n = 0 THEN [seeds |-> <<>>, rng |-> r]
    ELSE LET r1 == RngNext(r)
             r2 == RngNext(r1)
             sd == [x |-> RandInt(r, 0, w), y |-> RandInt(r1, 0, h),
                    inten |-> RandIntensity(r2)]
             rest == PlaceSeedsWholeCanvas(RngNext(r2), n - 1, w, h)
         IN [seeds |-> <<sd>> \o rest.seeds, rng |-> rest.rng]

\* The seed placement loop: num_seeds times three draws (x, y, intensity).
RECURSIVE PlaceSeeds(_, _, _, _)
PlaceSeeds(r, n, w, h) ==
    IF n = 0 THEN [seeds |-> <<>>, rng |-> r]
    ELSE LET r1 == RngNext(r)
             r2 == RngNext(r1)
             sd == [x |-> RandInt(r, TruncDiv(w, 10), TruncDiv(9 * w, 10)),
                    y |-> RandInt(r1, TruncDiv(h, 10), TruncDiv(9 * h, 10)),
                    inten |-> RandIntensity(r2)]
             rest == PlaceSeeds(RngNext(r2), n - 1, w, h)
         IN [seeds |-> <<sd>> \o rest.seeds, rng |-> rest.rng]

\* The bounds test of the step loop: 0 <= int(x) < width and 0 <= int(y) < height.
InBounds(c, st) ==
    /\ 0 <= PixelOf(st.x) /\ PixelOf(st.x) < c.w
    /\ 0 <= PixelOf(st.y) /\ PixelOf(st.y) < c.h

\* The part of a pass of the step loop after the deposit: move along the
\* flow vector of the pixel the particle is at (flow_strength 3.0), jitter
\* each axis (one draw each), decay. c holds the canvas, the flow field and
\* the step limit; st holds the particle (x, y, inten, step) and the state of
\* the random module.
MoveParticle(c, st) ==
    LET f == c.flow[<<PixelOf(st.y), PixelOf(st.x)>>]
        r1 == RngNext(st.rng)
    IN [st EXCEPT
          !.rng = RngNext(r1),
          !.x = @ + TruncDiv(3 * f.fx * PosQ, 1000) + RandJitter(st.rng),
          !.y = @ + TruncDiv(3 * f.fy * PosQ, 1000) + RandJitter(r1),
          !.inten = (@ * 95) \div 100,
          !.step = @ + 1]

\* One pass of the step loop that passed the bounds test: deposit
\* current_intensity * 0.05 at the truncated position, then move. st is the
\* loop state: the particle, the density raster, the generator state and the
\* deposits made so far.
AdvectStep(c, st) ==
    [MoveParticle(c, st) EXCEPT
       !.dens = [@ EXCEPT ![<<PixelOf(st.y), PixelOf(st.x)>>] = @ + st.inten \div 20],
       !.deposits = @ + 1]

\* A loop without the break on the intensity.
ParticleDoneNoDecayTest(c, st) == st.step >= c.steps \/ ~InBounds(c, st)

\* The step loop is over: range(max_steps) is exhausted, the pass before
\* left the intensity under 0.02 (break), or the bounds test fails (break).
ParticleDone(c, st) ==
    \/ st.step >= c.steps
    \/ (st.step > 0 /\ st.inten < (2 * IntQ) \div 100)
    \/ ~InBounds(c, st)

\* The step loop of one particle.
RECURSIVE Advect(_, _)
Advect(c, st) == IF ParticleDone(c, st) THEN st ELSE Advect(c, AdvectStep(c, st))

\* for _ in range(particles_per_seed): a particle starts at its seed; st.left
\* counts the particles the seed has still to emit.
RECURSIVE SeedParticles(_, _, _)
SeedParticles(c, st, sd) ==
    IF st.left = 0 THEN st
    ELSE SeedParticles(c, [Advect(c, [st EXCEPT !.x = sd.x * PosQ, !.y = sd.y * PosQ,
                                                !.inten = sd.inten, !.step = 0])
                             EXCEPT !.left = st.left - 1], sd)

\* for seed_x, seed_y, intensity in seeds; st.seeds are the seeds not yet visited.
RECURSIVE FlowParticles(_, _)
FlowParticles(c, st) ==
    IF st.seeds = <<>> THEN st
    ELSE FlowParticles(c, [SeedParticles(c, [st EXCEPT !.left = c.particles], Head(st.seeds))
                             EXCEPT !.seeds = Tail(st.seeds)])

\* A pass that also runs on a canvas of exactly 500000 pixels.
SmoothInclusive(w, h, d) ==
    IF w * h <= 500000
    THEN [p \in Pixels(w, h) |->
            IF 1 <= p[1] /\ p[1] < h - 1 /\ 1 <= p[2] /\ p[2] < w - 1
            THEN (d[<<p[1] - 1, p[2]>>] + d[<<p[1] + 1, p[2]>>]
                  + d[<<p[1], p[2] - 1>>] + d[<<p[1], p[2] + 1>>]
                  + 2 * d[p]) \div 6
            ELSE 0]
    ELSE d

\* The smoothing pass: a fresh zero raster whose interior pixels get the
\* weighted mean; it runs for canvases under 500000 pixels.
Smooth(w, h, d) ==
    IF w * h < 500000
    THEN [p \in Pixels(w, h) |->
            IF 1 <= p[1] /\ p[1] < h - 1 /\ 1 <= p[2] /\ p[2] < w - 1
            THEN (d[<<p[1] - 1, p[2]>>] + d[<<p[1] + 1, p[2]>>]
                  + d[<<p[1], p[2] - 1>>] + d[<<p[1], p[2] + 1>>]
                  + 2 * d[p]) \div 6
            ELSE 0]
    ELSE d

\* _create_density_field(num_seeds) called in generator state r.
CreateDensityField(r, w, h, numSeeds) ==
    LET flow == CreateFlowField(w, h, FlowScale(w, h))
        placed == PlaceSeeds(r, numSeeds, w, h)
        c == [w |-> w, h |-> h, flow |-> flow,
              steps |-> SimSteps(w, h), particles |-> SimParticles(w, h)]
        a0 == [dens |-> [p \in Pixels(w, h) |-> 0], rng |-> placed.rng, deposits |-> 0,
               x |-> 0, y |-> 0, inten |-> 0, step |-> 0,
               left |-> 0, seeds |-> placed.seeds]
        a == FlowParticles(c, a0)
    IN [density |-> Smooth(w, h, a.dens), raw |-> a.dens, seeds |-> placed.seeds,
        deposits |-> a.deposits, rng |-> a.rng]

\* ------------------------------------------------ the layer renderer
RasterMax(d) == IF DOMAIN d = {} THEN 0
                ELSE CHOOSE m \in {d[p] : p \in DOMAIN d} : \A q \in DOMAIN d : d[q] <= m

\* density_field / max_density in 1/NormQ (unchanged when the maximum is 0).
Normalize(d) ==
    LET m == RasterMax(d)
    IN IF m > 0 THEN [p \in DOMAIN d |-> (d[p] * NormQ) \div m] ELSE d

\* A channel written without the min(255, ...).
LayerChannelUnclamped(c, n) == (c * (70 * NormQ + 60 * n)) \div (100 * NormQ)

\* min(255, int(c * brightness_factor)), brightness_factor = 0.7 + density * 0.6.
LayerChannel(c, n) == Min(255, (c * (70 * NormQ + 60 * n)) \div (100 * NormQ))
\* min(255, int(alpha_factor * 255 * opacity)), alpha_factor = density ** 0.5,
\* the opacity in 1/100.
LayerAlpha(n, opacity) ==
    Min(255, (ISqrtIn((n * 1000000) \div NormQ, 0, 1000) * 255 * opacity) \div 100000)

\* A renderer that also colours the pixels at the threshold.
LayerPixelInclusive(color, opacity, d, m, n) ==
    IF (m > 0 /\ 20 * d >= m) \/ (m = 0 /\ 20 * d >= IntQ)
    THEN <<LayerChannel(color[1], n), LayerChannel(color[2], n),
           LayerChannel(color[3], n), LayerAlpha(n, opacity)>>
    ELSE <<0, 0, 0, 0>>

\* The value written to one pixel: <<r, g, b, alpha>>.
LayerPixel(color, opacity, d, m, n) ==
    IF (m > 0 /\ 20 * d > m) \/ (m = 0 /\ 20 * d > IntQ)
    THEN <<LayerChannel(color[1], n), LayerChannel(color[2], n),
           LayerChannel(color[3], n), LayerAlpha(n, opacity)>>
    ELSE <<0, 0, 0, 0>>

\* _create_nebula_layer(color, opacity, density_field): np.max raises on an
\* empty raster.
CreateNebulaLayer(color, opacity, d) ==
    IF DOMAIN d = {} THEN [ok |-> FALSE, err |-> "ValueError", px |-> <<>>, norm |-> <<>>]
    ELSE LET m == RasterMax(d)
             nd == Normalize(d)
         IN [ok |-> TRUE, err |-> None, norm |-> nd,
             px |-> [p \in DOMAIN d |-> LayerPixel(color, opacity, d[p], m, nd[p])]]

\* ----------------------------------------------------- the star field
StarSizes == <<1, 1, 1, 2>>

\* _create_star_field(num_stars): four draws per star (x, y, brightness,
\* size); randint(0, -1) raises on a canvas without pixels.
RECURSIVE DrawStars(_, _, _, _)
DrawStars(r, n, w, h) ==
    IF n = 0 THEN [ok |-> TRUE, stars |-> <<>>, rng |-> r]
    ELSE IF w - 1 < 0 THEN [ok |-> FALSE, stars |-> <<>>, rng |-> r]
    ELSE IF h - 1 < 0 THEN [ok |-> FALSE, stars |-> <<>>, rng |-> RngNext(r)]
    ELSE LET r1 == RngNext(r)
             r2 == RngNext(r1)
             r3 == RngNext(r2)
             st == [x |-> RandInt(r, 0, w - 1), y |-> RandInt(r1, 0, h - 1),
                    brightness |-> RandInt(r2, 100, 255),
                    size |-> StarSizes[RandChoice(r3, Len(StarSizes))]]
             rest == DrawStars(RngNext(r3), n - 1, w, h)
         IN [ok |-> rest.ok, stars |-> <<st>> \o rest.stars, rng |-> rest.rng]

\* The colour a star is drawn with: (brightness, brightness, brightness, 255).
StarFill(st) == <<st.brightness, st.brightness, st.brightness, 255>>

\* --------------------------------------------------- the gradient base
\* The least k with k * k * b >= a: ceil(sqrt(a / b)), 0 <= a <= s * s * b.
CeilSqrtRatio(a, b, s) == CHOOSE k \in 0 .. s : k * k * b >= a /\ (k = 0 \/ (k - 1) * (k - 1) * b < a)

\* int(gradient_factor * scale + offset), gradient_factor = 1 - distance / max_distance.
GradientChannel(scale, offset, d2, m2) ==
    offset + scale - CeilSqrtRatio(scale * scale * d2, m2, scale)

\* _create_gradient_base(): np.zeros raises on a negative dimension, and the
\* division by max_distance raises on the 1x1 canvas (max_distance = 0.0).
CreateGradientBase(w, h) ==
    LET cx == w \div 2
        cy == h \div 2
        m2 == cx * cx + cy * cy
    IN IF w < 0 \/ h < 0 THEN [ok |-> FALSE, err |-> "ValueError", px |-> <<>>]
       ELSE IF Pixels(w, h) # {} /\ m2 = 0
            THEN [ok |-> FALSE, err |-> "ZeroDivisionError", px |-> <<>>]
       ELSE [ok |-> TRUE, err |-> None,
             px |-> [p \in Pixels(w, h) |->
                       LET d2 == (p[2] - cx) * (p[2] - cx) + (p[1] - cy) * (p[1] - cy)
                       IN <<GradientChannel(8, 2, d2, m2), GradientChannel(5, 1, d2, m2),
                            GradientChannel(12, 4, d2, m2)>>]]

\* ------------------------------------------------------ the palettes
\* Palettes of unequal length: fire has three colours.
ThemePaletteUneven(theme) ==
    IF theme = "fire" THEN <<<<255, 120, 20>>, <<255, 180, 40>>, <<255, 60, 10>>>>
    ELSE <<<<255, 120, 40>>, <<160, 40, 255>>, <<40, 255, 140>>, <<255, 200, 40>>>>

\* The colour lists of generate_nebula, by theme; any other name (and None)
\* takes the else branch, the default list.
ThemePalette(theme) ==
    CASE theme = "fire" -> <<<<255, 120, 20>>, <<255, 180, 40>>, <<255, 60, 10>>, <<255, 220, 80>>>>
      [] theme = "ice" -> <<<<80, 180, 255>>, <<120, 220, 255>>, <<40, 140, 255>>, <<180, 240, 255>>>>
      [] theme = "alien" -> <<<<40, 255, 80>>, <<120, 255, 40>>, <<80, 255, 180>>, <<20, 200, 60>>>>
      [] theme = "sunset" -> <<<<255, 80, 120>>, <<255, 140, 60>>, <<180, 40, 180>>, <<255, 180, 80>>>>
      [] OTHER -> <<<<255, 120, 40>>, <<160, 40, 255>>, <<40, 255, 140>>, <<255, 200, 40>>>>

ThemeNames == {"default", "fire", "ice", "alien", "sunset"}

\* ------------------------------------------------------------ inputs
\* The canvas sizes <<width, height>> a behaviour may ask for.
Sizes == {<<4, 3>>, <<2, 2>>, <<1, 1>>, <<0, 3>>, <<-1, 3>>}
\* The seed arguments: None, or an integer.
SeedArgs == {NoSeed, 7}
\* The generator state a process starts with when nothing seeds it.
Entropy == {0, 1}
StarArgs == {0, 1}
\* The theme arguments of a direct call: three of the five names, and a name
\* that is none of them.
ThemeArgs == {"default", "fire", "ice", "bogus"}
\* The colors argument of a direct call: <<>> for None (use the theme), or
\* <<list>> for an explicit list.
NoColors == <<>>
ColorArgs == {NoColors, <<<<>>>>, <<<<<<255, 255, 255>>, <<0, 0, 0>>>>>>}
\* Calls of generate_nebula per behaviour.
MaxCalls == 2
\* Calls of _create_density_field per traced behaviour.
MaxBuilds == 2

\* ------------------------------------------------------------- state
VARIABLES
    canvas,     \* <<width, height>> the process builds its generators with
    rng,        \* the state of the process-wide random module
    np_rng,     \* the state of numpy's global generator (NoSeed: never seeded)
    gen,        \* the NebulaGenerator object (live: one has been constructed)
    pc,         \* where generate_nebula is: idle, gradient, stars, gas, core, flatten, done, error
    call,       \* the arguments of the running generate_nebula call
    layer,      \* the loop variable i of the gas layer loop
    result,     \* the accumulator image: the items composited so far, in order
    stages,     \* the stages entered by the running call, in order
    err,        \* the exception that ended the call, or None
    history,    \* the finished calls, in order
    lib,        \* what the installed imaging library does with an empty raster
    tool,       \* the create_nebula.py process: its position, arguments, exit status
    out_file,   \* the file at the tool's --output path
    config,     \* the settings of game/constants.py the background manager reads
    fs,         \* the files assets/images/nebula_background.png and nebula_cache.png
    mgr,        \* the fields of the BackgroundManager object
    thread,     \* the generation thread: its position and what its run returned
    screen,     \* what render() last drew
    regen,      \* the regenerate_background calls made: their number, the last command
    field,      \* one _create_density_field call, statement by statement
    particle,   \* the step loop of one particle of a build, pass by pass
    probe,      \* the last application of a function to arguments
    game        \* main() from the loading screen on: its loops, lives, timers, sprite
                \* groups; event is the event the last pass of a loop took

vars == <<canvas, rng, np_rng, gen, pc, call, layer, result, stages, err, history,
          lib, tool, out_file, config, fs, mgr, thread, screen, regen,
          field, particle, probe, game>>

\* The variables of the generator, of the tool around it, and of the game's
\* background manager.
genvars == <<canvas, rng, np_rng, gen, pc, call, layer, result, stages, err, history, lib,
             field, particle, probe>>
toolvars == <<tool, out_file>>
bgvars == <<config, fs, mgr, thread, screen, regen>>

\* The variables no step of NebulaGenerator writes.
others == <<lib, toolvars, bgvars, game, field, particle, probe>>

\* Before the first construction, and outside a call.
NoGen == [live |-> FALSE, width |-> 0, height |-> 0, seed |-> NoSeed,
          used |-> FALSE, rng_before |-> 0]
NoCall == [stars |-> 0, theme |-> None, colors_arg |-> NoColors, colors |-> <<>>,
           fresh |-> FALSE, rng_before |-> 0, rng_start |-> 0]

Width == canvas[1]
Height == canvas[2]

\* A loop over the colours that ends after its first pass.
NextStageOnePass(p, i, n) ==
    CASE p = "gradient" -> [pc |-> "stars", layer |-> 0]
      [] p = "stars" -> [pc |-> IF n > 0 THEN "gas" ELSE "core", layer |-> 0]
      [] p = "gas" -> [pc |-> "core", layer |-> i + 1]
      [] p = "core" -> [pc |-> "flatten", layer |-> i]
      [] OTHER -> [pc |-> "done", layer |-> i]

\* The stage after stage p (with loop variable i) for a list of n colours.
NextStage(p, i, n) ==
    CASE p = "gradient" -> [pc |-> "stars", layer |-> 0]
      [] p = "stars" -> [pc |-> IF n > 0 THEN "gas" ELSE "core", layer |-> 0]
      [] p = "gas" -> IF i + 1 < n THEN [pc |-> "gas", layer |-> i + 1]
                      ELSE [pc |-> "core", layer |-> i + 1]
      [] p = "core" -> [pc |-> "flatten", layer |-> i]
      [] OTHER -> [pc |-> "done", layer |-> i]

\* A constructor that never seeds the random module.
InitRngUnseeded(seed, r) == r

\* NebulaGenerator.__init__(width, height, seed): a seed that is not None
\* seeds both process-wide generators.
InitRng(seed, r) == IF seed # NoSeed THEN RngSeed(seed) ELSE r

Construct(seed) ==
    /\ pc = "idle"
    /\ Len(history) < MaxCalls
    /\ ~gen.live \/ gen.used
    /\ gen' = [live |-> TRUE, width |-> Width, height |-> Height, seed |-> seed,
               used |-> FALSE, rng_before |-> rng]
    /\ rng' = InitRng(seed, rng)
    /\ np_rng' = InitRng(seed, np_rng)
    /\ UNCHANGED <<others, canvas, pc, call, layer, result, stages, err, history>>

\* generate_nebula(colors, num_stars, theme) up to the choice of the colours.
Generate(stars, theme, colors) ==
    /\ pc = "idle"
    /\ gen.live
    /\ Len(history) < MaxCalls
    /\ call' = [stars |-> stars, theme |-> theme, colors_arg |-> colors,
                colors |-> IF colors = NoColors THEN ThemePalette(theme) ELSE colors[1],
                fresh |-> ~gen.used,
                rng_before |-> IF gen.used THEN rng ELSE gen.rng_before,
                rng_start |-> rng]
    /\ pc' = "gradient"
    /\ layer' = 0
    /\ result' = <<>>
    /\ stages' = <<>>
    /\ err' = None
    /\ UNCHANGED <<others, canvas, rng, np_rng, gen, history>>

Fail(e) ==
    /\ pc' = "error"
    /\ err' = e
    /\ UNCHANGED <<result, layer>>

Advance(item) ==
    LET nx == NextStage(pc, layer, Len(call.colors))
    IN /\ pc' = nx.pc
       /\ layer' = nx.layer
       /\ result' = Append(result, item)
       /\ err' = None

\* What Image.fromarray does with a raster without pixels depends on the
\* installed imaging library: it returns an empty image or raises. The
\* library is the same for every call of a process.
FromArrayOutcomes(w, h) == IF Pixels(w, h) = {} THEN {"ok", "ValueError"} ELSE {"ok"}

\* result = self._create_gradient_base(); result = result.convert('RGBA')
GradientStage ==
    /\ pc = "gradient"
    /\ stages' = Append(stages, "gradient")
    /\ LET g == CreateGradientBase(gen.width, gen.height)
       IN IF ~g.ok THEN Fail(g.err)
          ELSE IF lib = "ok" THEN Advance([kind |-> "gradient", px |-> g.px])
          ELSE Fail(lib)
    /\ UNCHANGED <<others, canvas, rng, np_rng, gen, call, history>>

\* stars = self._create_star_field(num_stars); alpha_composite(result, stars)
StarStage ==
    /\ pc = "stars"
    /\ stages' = Append(stages, "stars")
    /\ LET s == DrawStars(rng, call.stars, gen.width, gen.height)
       IN /\ rng' = s.rng
          /\ IF s.ok THEN Advance([kind |-> "stars", stars |-> s.stars,
                                   rng_in |-> rng, rng_out |-> s.rng])
             ELSE Fail("ValueError")
    /\ UNCHANGED <<others, canvas, np_rng, gen, call, history>>

\* blur_radius = 2 if self.width * self.height > 500000 else 4
BlurRadius(w, h) == IF w * h > 500000 THEN 2 ELSE 4

\* The item a layer adds to the accumulator: the layer raster, blurred with
\* the radius and alpha-composited onto the result so far.
LayerItem(kind, i, color, opacity, blur, d, l, r) ==
    [kind |-> kind, index |-> i, color |-> color, opacity |-> opacity,
     blur |-> blur, seeds |-> d.seeds, density |-> d.density, norm |-> l.norm,
     px |-> l.px, rng_in |-> r, rng_out |-> d.rng]

\* num_seeds=2 + i and opacity=0.5 + (i * 0.1) of gas layer i, the opacity in 1/100.
GasSeeds(i) == 2 + i
GasOpacity(i) == 50 + 10 * i

\* One pass of the loop over enumerate(colors), the random module at state r
\* when the pass begins.
GasLayer(r) ==
    /\ pc = "gas"
    /\ stages' = Append(stages, "gas")
    /\ LET i == layer
           d == CreateDensityField(r, gen.width, gen.height, GasSeeds(i))
           l == CreateNebulaLayer(call.colors[i + 1], GasOpacity(i), d.density)
       IN /\ rng' = d.rng
          /\ IF l.ok
             THEN Advance(LayerItem("gas", i, call.colors[i + 1], GasOpacity(i),
                                    BlurRadius(gen.width, gen.height), d, l, r))
             ELSE Fail(l.err)
    /\ UNCHANGED <<others, canvas, np_rng, gen, call, history>>

\* A pass that draws from a stream of its own, seeded with its index.
GasStagePrivateStream == GasLayer(RngSeed(layer))

\* The passes draw from the process-wide random module, which nothing resets
\* between them.
GasStage == GasLayer(rng)

\* tuple(min(255, int(c * 1.3)) for c in core_color)
Brighten(color) == [k \in 1 .. 3 |-> Min(255, (color[k] * 13) \div 10)]

\* The single pass of the core loop; random.choice raises on an empty list.
CoreStage ==
    /\ pc = "core"
    /\ stages' = Append(stages, "core")
    /\ LET d == CreateDensityField(rng, gen.width, gen.height, 1)
           n == Len(call.colors)
       IN IF n = 0
          THEN /\ rng' = d.rng
               /\ Fail("IndexError")
          ELSE LET k == RandChoice(d.rng, n)
                   color == Brighten(call.colors[k])
                   l == CreateNebulaLayer(color, 30, d.density)
               IN /\ rng' = RngNext(d.rng)
                  /\ IF l.ok
                     THEN Advance([LayerItem("core", k, color, 30, 1, d, l, rng)
                                      EXCEPT !.rng_out = RngNext(d.rng)])
                     ELSE Fail(l.err)
    /\ UNCHANGED <<others, canvas, np_rng, gen, call, history>>

\* return result.convert('RGB')
FlattenStage ==
    /\ pc = "flatten"
    /\ stages' = Append(stages, "flatten")
    /\ pc' = "done"
    /\ UNCHANGED <<others, canvas, rng, np_rng, gen, call, layer, result, err, history>>

\* The record of a finished call: the image it returned (its size and what
\* was composited), or the exception.
CallRecord ==
    [width |-> gen.width, height |-> gen.height, seed |-> gen.seed,
     fresh |-> call.fresh, stars |-> call.stars, theme |-> call.theme,
     colors_arg |-> call.colors_arg, colors |-> call.colors,
     ok |-> pc = "done", err |-> err,
     size |-> IF pc = "done" THEN <<gen.width, gen.height>> ELSE <<>>,
     image |-> IF pc = "done" THEN result ELSE <<>>,
     stages |-> stages,
     rng_before |-> call.rng_before, rng_start |-> call.rng_start, rng_after |-> rng]

\* generate_nebula returns, or its exception reaches the caller.
Return ==
    /\ pc \in {"done", "error"}
    /\ history' = Append(history, CallRecord)
    /\ gen' = [gen EXCEPT !.used = TRUE]
    /\ pc' = "idle"
    /\ call' = NoCall
    /\ layer' = 0
    /\ result' = <<>>
    /\ stages' = <<>>
    /\ err' = None
    /\ UNCHANGED <<others, canvas, rng, np_rng>>


Pipeline == GradientStage \/ StarStage \/ GasStage \/ CoreStage \/ FlattenStage

\* ------------------------------------------- the command-line tool
\* The exit status of a process that has not exited.
NoStatus == -1
NoTool == [pc |-> "off", seed |-> NoSeed, stars |-> 0, theme |-> None, status |-> NoStatus]

\* parser.parse_args(): --theme has choices, --width and --height are any
\* int; a theme outside the choices ends the process with status 2.
ToolParse(seed, stars, theme) ==
    /\ tool.pc = "start"
    /\ tool' = IF theme \in ThemeNames
               THEN [pc |-> "run", seed |-> seed, stars |-> stars, theme |-> theme,
                     status |-> NoStatus]
               ELSE [pc |-> "exit", seed |-> seed, stars |-> stars, theme |-> theme,
                     status |-> 2]
    /\ UNCHANGED <<genvars, bgvars, game, out_file>>

\* generator = NebulaGenerator(args.width, args.height, args.seed)
ToolConstruct ==
    /\ tool.pc = "run"
    /\ ~gen.live
    /\ Construct(tool.seed)

\* nebula = generator.generate_nebula(num_stars=args.stars, theme=args.theme)
ToolGenerate ==
    /\ tool.pc = "run"
    /\ gen.live
    /\ Generate(tool.stars, tool.theme, NoColors)

\* The stages of the call main() is waiting for.
ToolPipeline ==
    /\ tool.pc = "run"
    /\ Pipeline

\* What nebula.save(args.output) can do: write the whole file, fail to open
\* the path, or fail after the file has been opened for writing.
SaveOutcomes == {"written", "open_failed", "write_failed"}

\* The file at the output path after save() ended with the outcome. save()
\* opens the path itself with mode w+b, which truncates a file that is there;
\* whether a file it created is removed after a failed write depends on the
\* installed imaging library.
SavedFiles(outcome, before) ==
    CASE outcome = "written" -> {"image"}
      [] outcome = "open_failed" -> {before}
      [] OTHER -> IF before = "absent" THEN {"absent", "partial"} ELSE {"partial"}

\* nebula.save(args.output); print(...); the process ends with status 0, or
\* the exception of save() ends it with status 1.
ToolSave(outcome) ==
    /\ tool.pc = "run"
    /\ pc = "done"
    /\ out_file' \in SavedFiles(outcome, out_file)
    /\ tool' = [tool EXCEPT !.pc = "exit", !.status = IF outcome = "written" THEN 0 ELSE 1]
    /\ UNCHANGED <<genvars, bgvars, game>>

\* An exception of the constructor or of generate_nebula is not caught in
\* main(): traceback, status 1.
ToolCrash ==
    /\ tool.pc = "run"
    /\ pc = "error"
    /\ tool' = [tool EXCEPT !.pc = "exit", !.status = 1]
    /\ UNCHANGED <<genvars, bgvars, game, out_file>>

\* ------------------------------------------ the background manager
\* Calls of regenerate_background per behaviour.
MaxRegens == 1
\* The shots and the asteroid sprites a behaviour of the game has at a time.
MaxShots == 1
MaxSprites == 3
\* The frame time since a reset_game is counted up to this many ms.
AccumCap == 2000

\* A file is "absent", or named by what it holds: "old" (an image an earlier
\* process left), "thread" (the image the generation thread's run wrote),
\* "regen" (the image a regenerate_background run wrote), "partial" (a
\* truncated file). A surface is "None", "fallback" (the procedural
\* gradient), or named by the file it was loaded from.
Decodable(file) == file \in {"old", "thread", "regen"}

NoConfig == [BACKGROUND_SEED |-> NoSeed, imported_seed |-> NoSeed,
             FORCE_REGENERATE_BACKGROUND |-> FALSE, NEBULA_THEME |-> None]
NoFiles == [image |-> "absent", cache |-> "absent"]
\* BackgroundManager.__init__ (initialized: initialize() has been called).
NewManager == [background_surface |-> None, background_loaded |-> FALSE,
               is_generating |-> FALSE, generation_complete |-> FALSE,
               initialized |-> FALSE]
NoThread == [pc |-> "none", outcome |-> None, success |-> FALSE,
             seed_arg |-> NoSeed, theme_arg |-> None]
NoRegen == [count |-> 0, seed_arg |-> NoSeed, new_seed |-> NoSeed, success |-> FALSE,
            outcome |-> None, original_seed |-> NoSeed]

\* The new_seed arguments of regenerate_background: None, the configured
\* seed, another integer.
NewSeeds == SeedArgs \cup {11}

\* How a run of the generator subprocess can end for _generate_background:
\* the script is not there, it exits 0, it exits nonzero, subprocess.run
\* raises TimeoutExpired, or raises something else.
RunOutcomes == {"missing", "ok", "nonzero", "timeout", "oserror"}

\* A run counted as a success whatever its return code.
RunSucceededUnchecked(outcome) == outcome \in {"ok", "nonzero"}

\* if result.returncode == 0: return True; every other path returns False.
RunSucceeded(outcome) == outcome = "ok"

\* The image file after a run that wrote tag on success. The tool writes the
\* output path directly: a run that fails or is killed may have left the file
\* as it was or truncated, and a run killed after its write left it whole.
RunFiles(outcome, before, tag) ==
    CASE outcome = "ok" -> {tag}
      [] outcome = "nonzero" -> {before, "partial"}
      [] outcome = "timeout" -> {before, "partial", tag}
      [] OTHER -> {before}

\* The --theme of the command: NEBULA_THEME, or random.choice(themes).
ThemeChoices(theme) == IF theme # None THEN {theme} ELSE ThemeNames

\* A load that drops the surface it could not replace.
LoadBackgroundImageDropping(surface, image) ==
    IF Decodable(image) THEN [ok |-> TRUE, surface |-> image]
    ELSE [ok |-> FALSE, surface |-> None]

\* _load_background_image(): the surface after it, and what it returns.
LoadBackgroundImage(surface, image) ==
    IF Decodable(image) THEN [ok |-> TRUE, surface |-> image]
    ELSE [ok |-> FALSE, surface |-> surface]

\* initialize(): load the existing image, else create the fallback, then
\* start the generation thread if needed (GENERATE_BACKGROUND_ON_STARTUP is True).
Initialize ==
    /\ ~mgr.initialized
    /\ LET l == LoadBackgroundImage(mgr.background_surface, fs.image)
           should_generate == config.FORCE_REGENERATE_BACKGROUND
                                  \/ config.imported_seed = NoSeed
       IN /\ mgr' = [background_surface |-> IF l.ok THEN l.surface ELSE "fallback",
                     background_loaded |-> TRUE,
                     is_generating |-> should_generate,
                     generation_complete |-> FALSE,
                     initialized |-> TRUE]
          /\ thread' = IF should_generate THEN [thread EXCEPT !.pc = "run"] ELSE thread
    /\ UNCHANGED <<genvars, toolvars, game, config, fs, screen, regen>>

\* _generate_background() in the thread: build the command from the names
\* imported from constants, run it, return whether it exited 0.
ThreadGenerate(outcome, theme) ==
    /\ thread.pc = "run"
    /\ theme \in ThemeChoices(config.NEBULA_THEME)
    /\ \E image \in RunFiles(outcome, fs.image, "thread") :
         fs' = [fs EXCEPT !.image = IF outcome = "missing" THEN @ ELSE image]
    /\ thread' = [pc |-> IF RunSucceeded(outcome) THEN "cache" ELSE "finally",
                  outcome |-> outcome, success |-> RunSucceeded(outcome),
                  seed_arg |-> IF outcome = "missing" THEN NoSeed ELSE config.imported_seed,
                  theme_arg |-> IF outcome = "missing" THEN None ELSE theme]
    /\ UNCHANGED <<genvars, toolvars, game, config, mgr, screen, regen>>

\* if os.path.exists(BACKGROUND_IMAGE_PATH): shutil.copy2(image, cache); an
\* exception of the copy goes to the except clause.
ThreadCache(copied) ==
    /\ thread.pc = "cache"
    /\ IF fs.image = "absent"
       THEN /\ thread' = [thread EXCEPT !.pc = "load"]
            /\ fs' = fs
       ELSE IF copied
       THEN /\ thread' = [thread EXCEPT !.pc = "load"]
            /\ fs' = [fs EXCEPT !.cache = fs.image]
       ELSE /\ thread' = [thread EXCEPT !.pc = "finally"]
            /\ fs' = fs
    /\ UNCHANGED <<genvars, toolvars, game, config, mgr, screen, regen>>

\* if self._load_background_image(): self.generation_complete = True
ThreadLoad ==
    /\ thread.pc = "load"
    /\ LET l == LoadBackgroundImage(mgr.background_surface, fs.image)
       IN mgr' = [mgr EXCEPT !.background_surface = l.surface,
                             !.generation_complete = IF l.ok THEN TRUE ELSE @]
    /\ thread' = [thread EXCEPT !.pc = "finally"]
    /\ UNCHANGED <<genvars, toolvars, game, config, fs, screen, regen>>

\* A thread that ends without its finally clause.
ThreadFinallyKeepsFlag ==
    /\ thread.pc = "finally"
    /\ mgr' = mgr
    /\ thread' = [thread EXCEPT !.pc = "end"]
    /\ UNCHANGED <<genvars, toolvars, game, config, fs, screen, regen>>

\* finally: self.is_generating = False
ThreadFinally ==
    /\ thread.pc = "finally"
    /\ mgr' = [mgr EXCEPT !.is_generating = FALSE]
    /\ thread' = [thread EXCEPT !.pc = "end"]
    /\ UNCHANGED <<genvars, toolvars, game, config, fs, screen, regen>>

\* render(screen): the manager and the screen after it.
Rendered(m) ==
    IF m.generation_complete /\ m.background_surface # None
    THEN [mgr |-> [m EXCEPT !.is_generating = FALSE], screen |-> m.background_surface]
    ELSE IF m.background_surface # None /\ m.background_loaded
    THEN [mgr |-> m, screen |-> m.background_surface]
    ELSE [mgr |-> m, screen |-> "black"]

\* render(screen), called by the game loop after initialize().
Render ==
    /\ mgr.initialized
    /\ screen' = Rendered(mgr).screen
    /\ mgr' = Rendered(mgr).mgr
    /\ UNCHANGED <<genvars, toolvars, game, config, fs, thread, regen>>

\* use_fallback(): the manager after it.
FallbackUsed(m) ==
    [m EXCEPT !.is_generating = FALSE,
              !.background_surface = IF m.background_loaded THEN @ ELSE "fallback",
              !.background_loaded = TRUE]

\* use_fallback()
UseFallback ==
    /\ mgr.initialized
    /\ mgr' = FallbackUsed(mgr)
    /\ UNCHANGED <<genvars, toolvars, game, config, fs, thread, screen, regen>>

\* regenerate_background(new_seed): constants.BACKGROUND_SEED is set to the
\* new seed (during) and restored in the finally clause; _generate_background()
\* reads the name background.py imported, which the assignment to the
\* attribute of the constants module does not rebind.
RegenerateBackground(new_seed, outcome, theme) ==
    /\ mgr.initialized
    /\ regen.count < MaxRegens
    /\ theme \in ThemeChoices(config.NEBULA_THEME)
    /\ \E image \in RunFiles(outcome, fs.image, "regen") :
         LET original_seed == config.BACKGROUND_SEED
             during == IF new_seed # NoSeed
                       THEN [config EXCEPT !.BACKGROUND_SEED = new_seed]
                       ELSE config
             after == IF outcome = "missing" THEN fs.image ELSE image
             l == LoadBackgroundImage(mgr.background_surface, after)
         IN /\ fs' = [fs EXCEPT !.image = after]
            /\ mgr' = [mgr EXCEPT !.background_surface =
                                     IF RunSucceeded(outcome) THEN l.surface ELSE @]
            /\ regen' = [count |-> regen.count + 1,
                         seed_arg |-> IF outcome = "missing" THEN NoSeed
                                      ELSE during.imported_seed,
                         new_seed |-> new_seed,
                         success |-> RunSucceeded(outcome) /\ l.ok,
                         outcome |-> outcome,
                         original_seed |-> original_seed]
            /\ config' = IF new_seed # NoSeed
                         THEN [during EXCEPT !.BACKGROUND_SEED = original_seed]
                         ELSE during
    /\ UNCHANGED <<genvars, toolvars, game, thread, screen>>

\* ------------------------------------------------ the game, main()
\* main() has not been entered.
NoGame == [pc |-> "off", show_loading |-> FALSE, space_pressed |-> FALSE,
           game_state |-> None, lives |-> 0, timer |-> 0, invulnerable_timer |-> 0,
           spawn_timer |-> 0, sprites |-> EmptyBag, shots |-> 0, created |-> <<>>,
           reset_done |-> FALSE, since_reset |-> 0, event |-> None,
           last_loss |-> [after_reset |-> FALSE, accumulated |-> 0], exc |-> None]

\* PLAYER_LIVES, constants.py.
PLAYER_LIVES == 3
\* ASTEROID_MIN_RADIUS and ASTEROID_KINDS, constants.py.
ASTEROID_MIN_RADIUS == 20
ASTEROID_KINDS == 3
\* Times are in milliseconds: ASTEROID_SPAWN_RATE = 0.8 s, PLAYER_SHOOT_COOLDOWN
\* = 0.3 s, and the 2.0 s of make_invulnerable(2.0) in reset_game.
ASTEROID_SPAWN_RATE == 800
PLAYER_SHOOT_COOLDOWN == 300
RESET_INVULNERABLE == 2000

\* GameState.
PLAYING == "playing"
GAME_OVER == "game_over"

\* The sprite groups main creates, and the class attributes `containers` it
\* sets: Player, Shot, Asteroid and AsteroidField get one, AnimatedAsteroid
\* and CircleShape do not.
GroupNames == {"updatable", "drawable", "shots", "asteroids"}
Containers ==
    [Player |-> {"updatable", "drawable"},
     Shot |-> {"updatable", "drawable", "shots"},
     Asteroid |-> {"updatable", "drawable", "asteroids"},
     AsteroidField |-> {"updatable"}]

\* The classes an attribute of an instance is looked up in, in order.
Mro(cls) ==
    CASE cls = "Asteroid" -> <<"Asteroid", "AnimatedAsteroid", "CircleShape", "Sprite">>
      [] cls = "AnimatedAsteroid" -> <<"AnimatedAsteroid", "CircleShape", "Sprite">>
      [] cls = "Player" -> <<"Player", "CircleShape", "Sprite">>
      [] cls = "Shot" -> <<"Shot", "CircleShape", "Sprite">>
      [] OTHER -> <<cls, "Sprite">>

\* A lookup of `containers` that finds what main set on any asteroid class.
GroupsOfAnyAsteroid(cls) ==
    IF cls \in {"Asteroid", "AnimatedAsteroid"} THEN Containers.Asteroid
    ELSE IF cls \in DOMAIN Containers THEN Containers[cls] ELSE {}

\* CircleShape.__init__: if hasattr(self, "containers"):
\* super().__init__(self.containers) else super().__init__(): the groups a
\* new instance of cls joins.
GroupsOf(cls) ==
    LET found == {i \in 1 .. Len(Mro(cls)) : Mro(cls)[i] \in DOMAIN Containers}
    IN IF found = {} THEN {}
       ELSE Containers[Mro(cls)[CHOOSE i \in found : \A j \in found : i <= j]]

SizeNames == {"large", "medium", "small"}
\* radius_map of AnimatedAsteroid.__init__.
RadiusOf(size) ==
    CASE size = "large" -> 40
      [] size = "medium" -> 25
      [] OTHER -> 15

\* if radius >= 35: large, elif radius >= 20: medium, else: small
\* (AsteroidField.spawn and Asteroid.__init__).
SizeOfRadius(radius) ==
    IF radius >= 35 THEN "large" ELSE IF radius >= 20 THEN "medium" ELSE "small"

\* A sprite as the groups see it: its class, its size, the groups it is in;
\* by names the call that constructed it.
NewSprite(cls, size, by) == [cls |-> cls, size |-> size, groups |-> GroupsOf(cls), by |-> by]

\* AsteroidField.spawn(radius, position, velocity): one AnimatedAsteroid.
Spawn(radius) == <<NewSprite("AnimatedAsteroid", SizeOfRadius(radius), "spawn")>>

\* A split of a large asteroid into four.
SplitCountFour(size) ==
    CASE size = "large" -> 4
      [] size = "medium" -> 2
      [] OTHER -> 0

\* for i in range(3) for a large asteroid, for i in range(2) for a medium one.
SplitCount(size) ==
    CASE size = "large" -> 3
      [] size = "medium" -> 2
      [] OTHER -> 0

\* A list of n new sprites like piece.
RECURSIVE Pieces(_, _)
Pieces(n, piece) == IF n <= 0 THEN <<>> ELSE <<piece>> \o Pieces(n - 1, piece)

\* The size of the pieces.
SplitSize(size) == IF size = "large" THEN "medium" ELSE "small"

\* AnimatedAsteroid.split(): the list it returns (self.kill() is the
\* caller's removal of the sprite from every group).
Split(size) == Pieces(SplitCount(size), NewSprite("AnimatedAsteroid", SplitSize(size), "split"))

\* Asteroid(x, y, radius): the instance, and the instances its constructor
\* goes on to construct when its radius is above ASTEROID_MIN_RADIUS.
RECURSIVE NewAsteroid(_)
NewAsteroid(radius) ==
    LET size == SizeOfRadius(radius)
        self == <<NewSprite("Asteroid", size, "Asteroid")>>
    IN IF RadiusOf(size) <= ASTEROID_MIN_RADIUS THEN self
       ELSE self \o NewAsteroid(RadiusOf(size) - ASTEROID_MIN_RADIUS)
                 \o NewAsteroid(RadiusOf(size) - ASTEROID_MIN_RADIUS)

\* The sprites of a list that joined a group, as a bag of <<class, size>>.
RECURSIVE Joined(_)
Joined(objs) ==
    IF objs = <<>> THEN EmptyBag
    ELSE (IF Head(objs).groups # {}
          THEN SetToBag({[cls |-> Head(objs).cls, size |-> Head(objs).size,
                          groups |-> Head(objs).groups]})
          ELSE EmptyBag) (+) Joined(Tail(objs))

\* The members of a group among the sprites.
Members(sprites, group) ==
    {o \in BagToSet(sprites) : group \in o.groups}

\* The names an instance of BackgroundManager has: its methods and the
\* attributes __init__ sets.
ManagerAttributes ==
    {"_create_loading_screen", "_create_fallback_background_on_surface",
     "_generate_background_threaded", "_generate_background", "_load_background_image",
     "_create_fallback_background", "initialize", "render", "is_background_generating",
     "is_generation_complete", "get_generation_status", "use_fallback",
     "regenerate_background", "background_surface", "loading_surface",
     "background_loaded", "is_generating", "generation_complete", "generation_thread"}

\* LoadingScreen.update_and_draw(): it asks the manager for
\* get_loading_background() before it draws, and its last statement is
\* `return False`.
UpdateAndDraw ==
    IF "get_loading_background" \in ManagerAttributes
    THEN [raised |-> None, complete |-> FALSE]
    ELSE [raised |-> "AttributeError", complete |-> FALSE]

\* The events a pass of an event loop takes from the queue.
Events == {"none", "quit", "escape", "space"}

\* The variables main does not write.
notgame == <<genvars, toolvars, config, fs, thread, regen>>

\* if SHOW_LOADING_SCREEN: loading_screen = LoadingScreen(...); the loop is entered.
ShowLoading ==
    /\ mgr.initialized
    /\ game.pc = "start"
    /\ game.show_loading
    /\ game' = [game EXCEPT !.pc = "loading"]
    /\ UNCHANGED <<notgame, mgr, screen>>

\* One pass of the loading screen loop: the events, update_and_draw, the test
\* of loading_complete. The break after use_fallback() ends the for loop
\* over the events, not the while loop.
LoadingFrame(event) ==
    /\ game.pc = "loading"
    /\ IF event = "quit"
       THEN /\ game' = [game EXCEPT !.pc = "exited", !.event = event]
            /\ mgr' = mgr
       ELSE /\ mgr' = IF event = "escape" THEN FallbackUsed(mgr) ELSE mgr
            /\ game' = [game EXCEPT
                          !.event = event,
                          !.space_pressed = @ \/ event = "space",
                          !.exc = UpdateAndDraw.raised,
                          !.pc = IF UpdateAndDraw.raised # None THEN "crashed"
                                 ELSE IF UpdateAndDraw.complete THEN "loaded"
                                 ELSE "loading"]
    /\ UNCHANGED <<notgame, screen>>

\* Lines 72-100 of main: the sounds, the fonts, the groups and containers,
\* the player and the asteroid field, game_state and lives. The player and
\* the field stay in their groups for the rest of the run.
SetupGame ==
    /\ mgr.initialized
    /\ \/ game.pc = "start" /\ ~game.show_loading
       \/ game.pc = "loaded"
    /\ game' = [game EXCEPT !.pc = "loop", !.game_state = PLAYING, !.lives = PLAYER_LIVES,
                            !.timer = 0, !.invulnerable_timer = 0, !.spawn_timer = 0,
                            !.sprites = EmptyBag, !.shots = 0, !.created = <<>>]
    /\ UNCHANGED <<notgame, mgr, screen>>

\* The asteroid sprites that are in no group named.
Without(sprites, group) ==
    LET kept == {o \in BagToSet(sprites) : group \notin o.groups}
    IN [o \in kept |-> sprites[o]]

\* reset_game(player, asteroidfield, shots, asteroids): the player back to
\* the centre and invulnerable for 2.0 s, every asteroid of the asteroids
\* group and every shot killed, the field's __init__ run again.
ResetGame(g) ==
    [g EXCEPT !.invulnerable_timer = RESET_INVULNERABLE,
              !.sprites = Without(g.sprites, "asteroids"),
              !.shots = 0,
              !.spawn_timer = 0,
              !.reset_done = TRUE,
              !.since_reset = 0]

\* A player who can be hit again 0.2 s before the timer has run out.
IsVulnerableEarly(invulnerable_timer) == invulnerable_timer <= 200

\* Player.is_vulnerable()
IsVulnerable(invulnerable_timer) == invulnerable_timer <= 0

\* A game that is over only below zero lives.
GameIsOverBelowZero(lives) == lives < 0

\* if lives <= 0: game_state = GameState.GAME_OVER
GameIsOver(lives) == lives <= 0

\* updatable.update(dt): Player.update (the two timers, a shot when SPACE
\* is held and the cooldown is over), AsteroidField.update (a spawn when the
\* timer is above ASTEROID_SPAWN_RATE), Shot.update (gone of the shots leave
\* the screen and are killed). since_reset adds up the dt the player was
\* updated with since the last reset_game.
UpdateAll(g, dt, key_space, kind, gone) ==
    LET timer == IF g.timer > 0 THEN g.timer - dt ELSE g.timer
        shoots == key_space /\ timer <= 0
        spawn_timer == g.spawn_timer + dt
        spawns == spawn_timer > ASTEROID_SPAWN_RATE
        new == IF spawns THEN Spawn(ASTEROID_MIN_RADIUS * kind) ELSE <<>>
    IN [g EXCEPT
          !.timer = IF shoots THEN PLAYER_SHOOT_COOLDOWN ELSE timer,
          !.invulnerable_timer = IF @ > 0 THEN @ - dt ELSE @,
          !.since_reset = Min(@ + dt, AccumCap),
          !.shots = @ - gone + (IF shoots /\ "shots" \in GroupsOf("Shot") THEN 1 ELSE 0),
          !.spawn_timer = IF spawns THEN 0 ELSE spawn_timer,
          !.created = @ \o new,
          !.sprites = @ (+) Joined(new)]

\* for asteroid in asteroids: if player.is_vulnerable() and
\* player.collision(asteroid): ... break. hit says that an asteroid of the
\* group overlaps the player.
PlayerCollisions(g, hit) ==
    IF hit /\ Members(g.sprites, "asteroids") # {} /\ IsVulnerable(g.invulnerable_timer)
    THEN LET lost == [g EXCEPT !.lives = @ - 1,
                               !.last_loss = [after_reset |-> g.reset_done,
                                              accumulated |-> IF g.reset_done
                                                              THEN g.since_reset ELSE 0]]
         IN IF GameIsOver(lost.lives) THEN [lost EXCEPT !.game_state = GAME_OVER]
            ELSE ResetGame(lost)
    ELSE g

\* for shot in shots: for asteroid in asteroids: if shot.collision(asteroid):
\* shot.kill(); asteroid.split(); break. targets are the asteroids the
\* successive shots that hit something hit; ok is false when a target is not
\* in the group (any more).
RECURSIVE ShotCollisions(_, _)
ShotCollisions(g, targets) ==
    IF targets = <<>> THEN [ok |-> TRUE, g |-> g]
    ELSE LET a == Head(targets)
         IN IF g.shots = 0 \/ ~BagIn(a, g.sprites) \/ "asteroids" \notin a.groups
            THEN [ok |-> FALSE, g |-> g]
            ELSE ShotCollisions([g EXCEPT !.shots = @ - 1,
                                         !.sprites = (@ (-) SetToBag({a}))
                                                        (+) Joined(Split(a.size)),
                                         !.created = @ \o Split(a.size)],
                                Tail(targets))

\* for sprite in drawable: sprite.draw(GAMESCREEN). Asteroid.draw calls
\* self.get_asteroid_points(), which no class defines.
DrawRaises(g) ==
    IF \E o \in Members(g.sprites, "drawable") : o.cls = "Asteroid"
    THEN "AttributeError" ELSE None

\* One pass of the main loop: the events, dt, the background, and for
\* PLAYING the update, the two collision loops and the drawing. QUIT and
\* ESCAPE clear RUNGAME, and the pass is finished before the loop ends.
Frame(event, dt, key_space, kind, hit, targets, gone) ==
    /\ game.pc = "loop"
    /\ gone <= game.shots
    /\ LET restart == event = "space" /\ game.game_state = GAME_OVER
           g0 == [game EXCEPT !.event = event, !.created = <<>>]
           g1 == IF restart
                 THEN ResetGame([g0 EXCEPT !.game_state = PLAYING, !.lives = PLAYER_LIVES])
                 ELSE g0
           playing == g1.game_state = PLAYING
           g2 == IF playing THEN UpdateAll(g1, dt, key_space, kind, gone) ELSE g1
           g3 == IF playing THEN PlayerCollisions(g2, hit) ELSE g2
           shot == IF playing THEN ShotCollisions(g3, targets) ELSE [ok |-> targets = <<>>, g |-> g3]
           g4 == shot.g
           raised == IF playing THEN DrawRaises(g4) ELSE None
       IN /\ shot.ok
          /\ g2.shots <= MaxShots
          /\ game' = [g4 EXCEPT !.exc = raised,
                                !.pc = IF raised # None THEN "crashed"
                                       ELSE IF event \in {"quit", "escape"} THEN "exited"
                                       ELSE "loop"]
          /\ mgr' = Rendered(mgr).mgr
          /\ screen' = Rendered(mgr).screen
    /\ UNCHANGED notgame

\* Asteroid(x, y, radius) is called while the loop runs: the instance and
\* the instances its constructor constructs join the groups of
\* Asteroid.containers.
ConstructAsteroid(radius) ==
    /\ game.pc = "loop"
    /\ BagCardinality(game.sprites) + Len(NewAsteroid(radius)) <= MaxSprites
    /\ game' = [game EXCEPT !.sprites = @ (+) Joined(NewAsteroid(radius)),
                            !.created = NewAsteroid(radius),
                            !.event = None]
    /\ UNCHANGED <<notgame, mgr, screen>>

\* ------------------------------------- builds and functions, traced
\* A raster or flow field that does not exist (yet).
NoRaster == <<>>
NoSeedPoint == [x |-> 0, y |-> 0, inten |-> 0]
NoLoop == [dens |-> NoRaster, rng |-> 0, deposits |-> 0, x |-> 0, y |-> 0, inten |-> 0,
           step |-> 0]
NoField == [pc |-> "off", w |-> 0, h |-> 0, num_seeds |-> 0, builds |-> 0,
            flows_built |-> 0, scale |-> 0, flow |-> NoRaster, seeds |-> <<>>,
            todo |-> <<>>, left |-> 0, cur |-> NoSeedPoint, particles |-> 0, steps |-> 0,
            st |-> NoLoop, density |-> NoRaster]

\* The variables no statement of a traced build writes.
notfield == <<canvas, rng, np_rng, gen, pc, call, layer, result, stages, err, history,
              lib, toolvars, bgvars, game, particle, probe>>

\* What the step loop of the traced build reads: the canvas, the flow field
\* the build made, max_steps.
FieldBuild == [w |-> field.w, h |-> field.h, flow |-> field.flow, steps |-> field.steps]

\* _create_density_field(num_seeds) is entered with the random module in
\* state r: density = np.zeros((self.height, self.width)). The locals of an
\* earlier call are gone.
FieldBegin(num_seeds, r) ==
    /\ field.pc \in {"off", "done"}
    /\ field.builds < MaxBuilds
    /\ field' = [NoField EXCEPT !.pc = "flow", !.w = Width, !.h = Height,
                                !.num_seeds = num_seeds, !.builds = field.builds + 1,
                                !.flows_built = field.flows_built,
                                !.st = [NoLoop EXCEPT !.dens = [p \in Pixels(Width, Height) |-> 0],
                                                      !.rng = r]]
    /\ UNCHANGED notfield

\* A build that takes the flow field of the build before it when there is one.
FieldFlowShared ==
    /\ field.pc = "flow"
    /\ field' = [field EXCEPT
                   !.pc = "seeds",
                   !.scale = FlowScale(field.w, field.h),
                   !.flow = CreateFlowField(field.w, field.h, FlowScale(field.w, field.h)),
                   !.flows_built = IF @ = 0 THEN 1 ELSE @]
    /\ UNCHANGED notfield

\* flow_scale = max(32.0, min(w, h) / 20); flow_x, flow_y = self._create_flow_field(flow_scale)
FieldFlow ==
    /\ field.pc = "flow"
    /\ field' = [field EXCEPT
                   !.pc = "seeds",
                   !.scale = FlowScale(field.w, field.h),
                   !.flow = CreateFlowField(field.w, field.h, FlowScale(field.w, field.h)),
                   !.flows_built = @ + 1]
    /\ UNCHANGED notfield

\* The seed placement loop, then particles_per_seed and max_steps (the model
\* emits at most MaxParticles particles per seed).
FieldSeeds ==
    /\ field.pc = "seeds"
    /\ LET placed == PlaceSeeds(field.st.rng, field.num_seeds, field.w, field.h)
       IN field' = [field EXCEPT
                      !.pc = "seed",
                      !.seeds = placed.seeds,
                      !.todo = placed.seeds,
                      !.particles = SimParticles(field.w, field.h),
                      !.steps = MaxSteps(field.w, field.h),
                      !.st = [@ EXCEPT !.rng = placed.rng]]
    /\ UNCHANGED notfield

\* for seed_x, seed_y, intensity in seeds: the next seed, or the end of the loop.
FieldNextSeed ==
    /\ field.pc = "seed"
    /\ field' = IF field.todo = <<>> THEN [field EXCEPT !.pc = "smooth"]
                ELSE [field EXCEPT !.pc = "spawn", !.cur = Head(field.todo),
                                   !.todo = Tail(field.todo), !.left = field.particles]
    /\ UNCHANGED notfield

\* for _ in range(particles_per_seed): x, y = float(seed_x), float(seed_y);
\* current_intensity = intensity; or the end of the loop.
FieldSpawn ==
    /\ field.pc = "spawn"
    /\ field' = IF field.left = 0 THEN [field EXCEPT !.pc = "seed"]
                ELSE [field EXCEPT !.pc = "step", !.left = @ - 1,
                                   !.st = [@ EXCEPT !.x = field.cur.x * PosQ,
                                                    !.y = field.cur.y * PosQ,
                                                    !.inten = field.cur.inten,
                                                    !.step = 0]]
    /\ UNCHANGED notfield

\* One pass of the step loop that passes the bounds test.
FieldStep ==
    /\ field.pc = "step"
    /\ ~ParticleDone(FieldBuild, field.st)
    /\ field' = [field EXCEPT !.st = AdvectStep(FieldBuild, field.st)]
    /\ UNCHANGED notfield

\* The step loop ends: the range is exhausted or a break is taken.
FieldParticleEnd ==
    /\ field.pc = "step"
    /\ ParticleDone(FieldBuild, field.st)
    /\ field' = [field EXCEPT !.pc = "spawn"]
    /\ UNCHANGED notfield

\* The smoothing pass and the return.
FieldSmooth ==
    /\ field.pc = "smooth"
    /\ field' = [field EXCEPT !.pc = "done",
                              !.density = Smooth(field.w, field.h, field.st.dens)]
    /\ UNCHANGED notfield

NoPixel == <<>>
NoParticle == [pc |-> "off", w |-> 0, h |-> 0, steps |-> 0, x |-> 0, y |-> 0, inten |-> 0,
               inten0 |-> 0, step |-> 0, rng |-> 0, deposits |-> 0, at |-> NoPixel,
               from |-> NoPixel]

\* What the step loop reads of its build: the canvas, the flow field built
\* before the loops, and max_steps.
ParticleBuild ==
    [w |-> particle.w, h |-> particle.h,
     flow |-> CreateFlowField(particle.w, particle.h, FlowScale(particle.w, particle.h)),
     steps |-> particle.steps]

\* One pass of `for step in range(max_steps)` that passes the bounds test;
\* at and from record the pixel the deposit went to and the position it was
\* made from.
ParticleStep ==
    /\ particle.pc = "run"
    /\ ~ParticleDone(ParticleBuild, particle)
    /\ particle' = [MoveParticle(ParticleBuild, particle) EXCEPT
                      !.deposits = @ + 1,
                      !.at = <<PixelOf(particle.y), PixelOf(particle.x)>>,
                      !.from = <<particle.x, particle.y>>]
    /\ UNCHANGED <<canvas, rng, np_rng, gen, pc, call, layer, result, stages, err, history,
                   lib, toolvars, bgvars, game, field, probe>>

\* The loop ends: the range is exhausted or a break is taken.
ParticleStop ==
    /\ particle.pc = "run"
    /\ ParticleDone(ParticleBuild, particle)
    /\ particle' = [particle EXCEPT !.pc = "stopped"]
    /\ UNCHANGED <<canvas, rng, np_rng, gen, pc, call, layer, result, stages, err, history,
                   lib, toolvars, bgvars, game, field, probe>>
NoProbe == [fn |-> "none"]

\* The variables the application of a pure function leaves alone.
notprobe == <<canvas, rng, np_rng, gen, pc, call, layer, result, stages, err, history,
              lib, toolvars, bgvars, game, field, particle>>

\* The raster whose rows, top to bottom, are the consecutive runs of w values of q.
RasterOfSeq(w, h, q) == [p \in Pixels(w, h) |-> q[p[1] * w + p[2] + 1]]

\* A raster given by a rule, for canvases too large to enumerate: the
\* density (in 1/IntQ) grows along rows and columns and is never 0.
RasterOfRule(w, h) == [p \in Pixels(w, h) |-> 1000 + 7 * (p[1] % 100) + 13 * (p[2] % 100)]

\* The pixels of a w x h raster a probe looks at: all of them on a small
\* canvas; on a large one the corners, one pixel of each edge, and an
\* interior pixel with its four neighbours.
Samples(w, h) ==
    IF w * h <= 100 THEN Pixels(w, h)
    ELSE {<<0, 0>>, <<0, w - 1>>, <<h - 1, 0>>, <<h - 1, w - 1>>,
          <<0, w \div 2>>, <<h - 1, w \div 2>>, <<h \div 2, 0>>, <<h \div 2, w - 1>>,
          <<h \div 2, w \div 2>>, <<h \div 2 - 1, w \div 2>>, <<h \div 2 + 1, w \div 2>>,
          <<h \div 2, w \div 2 - 1>>, <<h \div 2, w \div 2 + 1>>}

\* The end of _create_density_field (lines 134-146) applied to an
\* accumulated raster d of a w x h canvas: what it returns, at the samples.
ApplySmooth(w, h, d) ==
    /\ probe' = [fn |-> "smooth", w |-> w, h |-> h,
                 before |-> [p \in Samples(w, h) |-> d[p]],
                 after |-> [p \in Samples(w, h) |-> Smooth(w, h, d)[p]]]
    /\ UNCHANGED notprobe

\* _create_nebula_layer(color, opacity, density_field) on a w x h canvas.
ApplyLayer(w, h, color, opacity, d) ==
    /\ probe' = [fn |-> "layer", w |-> w, h |-> h, color |-> color, opacity |-> opacity,
                 density |-> d, max |-> RasterMax(d),
                 layer |-> CreateNebulaLayer(color, opacity, d)]
    /\ UNCHANGED notprobe

\* _turbulence(x, y, size): the octaves the loop visits (k for size / 2^k)
\* and the value it returns.
ApplyTurbulence(x, y, size) ==
    /\ probe' = [fn |-> "turbulence", x |-> x, y |-> y, size |-> size,
                 octaves |-> Octaves(size, 0),
                 value |-> Turbulence(x, y, size)]
    /\ UNCHANGED notprobe

\* Every sprite that splitting an asteroid of a size, the pieces, the pieces
\* of the pieces and so on brings about.
RECURSIVE Descendants(_)
RECURSIVE DescendantsOfAll(_)
Descendants(size) == Split(size) \o DescendantsOfAll(Split(size))
DescendantsOfAll(objs) ==
    IF objs = <<>> THEN <<>>
    ELSE Descendants(Head(objs).size) \o DescendantsOfAll(Tail(objs))

\* The longest chain of splits that starts at an asteroid of a size.
RECURSIVE SplitDepth(_)
SplitDepth(size) == IF Split(size) = <<>> THEN 1 ELSE 1 + SplitDepth(Split(size)[1].size)

\* self.kill(): the groups the sprite is in afterwards.
Killed(groups) == groups \ GroupNames

\* split() called on an asteroid of a size that is in the groups given.
ApplySplit(size, groups) ==
    /\ probe' = [fn |-> "split", size |-> size, groups |-> groups,
                 returned |-> Split(size),
                 groups_after |-> Killed(groups),
                 descendants |-> Descendants(size),
                 depth |-> SplitDepth(size)]
    /\ UNCHANGED notprobe

\* particles_per_seed and max_steps (lines 102-103) for a w x h canvas; prev
\* keeps the application before this one.
ApplyLimits(w, h) ==
    /\ probe' = [fn |-> "limits", w |-> w, h |-> h,
                 particles_per_seed |-> ParticlesPerSeed(w, h),
                 max_steps |-> MaxSteps(w, h),
                 prev |-> IF probe.fn = "limits"
                          THEN <<[w |-> probe.w, h |-> probe.h,
                                  particles_per_seed |-> probe.particles_per_seed,
                                  max_steps |-> probe.max_steps]>>
                          ELSE <<>>]
    /\ UNCHANGED notprobe

\* _create_density_field(num_seeds) on a w x h canvas with the random module
\* in state r: the deposits of the build, the loop limits of the code and
\* the limits the model runs the loops with.
ApplyDensityField(r, w, h, num_seeds) ==
    /\ probe' = [fn |-> "density", w |-> w, h |-> h, num_seeds |-> num_seeds, rng |-> r,
                 particles_per_seed |-> ParticlesPerSeed(w, h),
                 max_steps |-> MaxSteps(w, h),
                 particles_run |-> SimParticles(w, h),
                 steps_run |-> SimSteps(w, h),
                 deposits |-> CreateDensityField(r, w, h, num_seeds).deposits]
    /\ UNCHANGED notprobe

\* -------------------------------------------------- specifications
\* A process before it has built a generator, on a canvas size and with an
\* imaging library that stay the same for the whole behaviour.
InitProcess ==
    /\ lib \in FromArrayOutcomes(canvas[1], canvas[2])
    /\ rng \in Entropy
    /\ np_rng = NoSeed
    /\ gen = NoGen
    /\ pc = "idle"
    /\ call = NoCall
    /\ layer = 0
    /\ result = <<>>
    /\ stages = <<>>
    /\ err = None
    /\ history = <<>>

\* No density field build is traced and no function has been applied.
InitNoBuild ==
    /\ field = NoField
    /\ particle = NoParticle
    /\ probe = NoProbe

InitGenerator ==
    /\ canvas \in Sizes
    /\ InitProcess
    /\ InitNoBuild

InitNoTool ==
    /\ tool = NoTool
    /\ out_file = "absent"

InitNoGame == game = NoGame

InitNoManager ==
    /\ config = NoConfig
    /\ fs = NoFiles
    /\ mgr = NewManager
    /\ thread = NoThread
    /\ screen = "nothing"
    /\ regen = NoRegen

\* A process that calls NebulaGenerator directly.
Init == InitGenerator /\ InitNoTool /\ InitNoManager /\ InitNoGame

Next ==
    \/ \E seed \in SeedArgs : Construct(seed)
    \/ \E stars \in StarArgs, theme \in ThemeArgs : Generate(stars, theme, NoColors)
    \/ \E stars \in StarArgs, colors \in ColorArgs \ {NoColors} : Generate(stars, "default", colors)
    \/ Pipeline
    \/ Return

Spec == Init /\ [][Next]_vars

\* A process that builds one generator and calls generate_nebula once: with
\* each of the five names, with None, with a name that is none of the five,
\* or with a list of seven colours.
CallSizes == {<<2, 2>>, <<4, 3>>}
CallThemes == ThemeNames \cup {None, "bogus"}
SevenColors == <<<<255, 0, 0>>, <<255, 128, 0>>, <<255, 255, 0>>, <<0, 255, 0>>,
                 <<0, 255, 255>>, <<0, 0, 255>>, <<200, 100, 255>>>>

InitCall ==
    /\ canvas \in CallSizes
    /\ InitProcess
    /\ InitNoBuild
    /\ InitNoTool
    /\ InitNoManager
    /\ InitNoGame

NextCall ==
    \/ \E seed \in SeedArgs : history = <<>> /\ Construct(seed)
    \/ \E stars \in StarArgs, theme \in CallThemes :
         history = <<>> /\ Generate(stars, theme, NoColors)
    \/ \E stars \in StarArgs : history = <<>> /\ Generate(stars, "default", <<SevenColors>>)
    \/ Pipeline
    \/ Return

SpecCall == InitCall /\ [][NextCall]_vars

\* One particle of a build, from the statement that starts it (x, y =
\* float(seed_x), float(seed_y); current_intensity = intensity) to the end of
\* its step loop. The seed is one the placement can give the canvas (a
\* corner or the middle of the placement range, intensity 0.8, just under 1.0
\* or 1.0), the random module is in any of the states of ParticleEntropy.
ParticleSizes == {<<4, 3>>, <<10, 10>>, <<60, 60>>, <<500, 800>>}
ParticleEntropy == {0, 5, 11, 22, 37, 50}
SeedIntensities == {(8 * IntQ) \div 10, RandIntensity(RngMod - 1), IntQ}
SeedCoordinates(n) ==
    {TruncDiv(n, 10), (TruncDiv(n, 10) + TruncDiv(9 * n, 10)) \div 2, TruncDiv(9 * n, 10)}

InitParticle ==
    /\ canvas \in ParticleSizes
    /\ InitProcess
    /\ rng = 0
    /\ InitNoTool
    /\ InitNoManager
    /\ InitNoGame
    /\ field = NoField
    /\ probe = NoProbe
    /\ \E sx \in SeedCoordinates(canvas[1]), sy \in SeedCoordinates(canvas[2]),
          i \in SeedIntensities, r \in ParticleEntropy :
         particle = [pc |-> "run", w |-> canvas[1], h |-> canvas[2],
                     steps |-> MaxSteps(canvas[1], canvas[2]),
                     x |-> sx * PosQ, y |-> sy * PosQ, inten |-> i, inten0 |-> i,
                     step |-> 0, rng |-> r, deposits |-> 0, at |-> NoPixel, from |-> NoPixel]

NextParticle == ParticleStep \/ ParticleStop

SpecParticle == InitParticle /\ [][NextParticle]_vars

\* A generator whose _create_density_field is called up to MaxBuilds times, as
\* generate_nebula calls it for layer after layer.
FieldSizes == {<<4, 3>>, <<10, 10>>, <<25, 7>>}
FieldSeedCounts == {1, 2, 3}
FieldEntropy == {0, 5, 22}

InitField ==
    /\ canvas \in FieldSizes
    /\ InitProcess
    /\ rng = 0
    /\ InitNoTool
    /\ InitNoManager
    /\ InitNoGame
    /\ field = NoField
    /\ particle = NoParticle
    /\ probe = NoProbe

NextField ==
    \/ \E n \in FieldSeedCounts, r \in FieldEntropy : field.pc = "off" /\ FieldBegin(n, r)
    \/ field.pc = "done" /\ FieldBegin(field.num_seeds + 1, field.st.rng)
    \/ FieldFlow
    \/ FieldSeeds
    \/ FieldNextSeed
    \/ FieldSpawn
    \/ FieldStep
    \/ FieldParticleEnd
    \/ FieldSmooth

SpecField == InitField /\ [][NextField]_vars

\* The functions of the generator applied to arguments drawn from small
\* sets: rasters of small canvases given pixel by pixel (an accumulated
\* raster of a build among them), rasters of canvases around 500000 pixels
\* given by rule.
SmallRasters ==
    {[w |-> 2, h |-> 2, d |-> RasterOfSeq(2, 2, <<0, 0, 0, 0>>)],
     [w |-> 2, h |-> 2, d |-> RasterOfSeq(2, 2, <<IntQ, IntQ \div 20, IntQ \div 20 + 1, 0>>)],
     [w |-> 4, h |-> 3, d |-> RasterOfSeq(4, 3, <<400, 0, 0, 100, 0, 600, 1200, 0, 50, 0, 300, 0>>)],
     [w |-> 4, h |-> 3, d |-> RasterOfSeq(4, 3, <<0, 60, 0, 0, 30, 600, 1200, 0, 0, 0, 0, 0>>)],
     [w |-> 4, h |-> 4, d |-> RasterOfSeq(4, 4, <<0, 0, 0, 0, 0, 600, 1200, 0,
                                                    0, 60, 61, 0, 0, 0, 0, 0>>)],
     [w |-> 4, h |-> 3, d |-> CreateDensityField(5, 4, 3, 2).raw]}
LargeSizes == {<<999, 500>>, <<1000, 500>>, <<800, 625>>, <<1000, 501>>, <<1280, 720>>}
LimitSizes == {<<4, 3>>, <<100, 50>>, <<600, 600>>, <<800, 600>>} \cup LargeSizes
              \cup {<<2000, 1000>>}
LayerColors == {<<255, 120, 40>>, <<40, 140, 255>>}
LayerOpacities == {30, 50, 80}
UnitEntropy == {0, 5, 22}
TurbulenceCoordinates == {0, 3, 17, 59}
TurbulenceSizes == {1, 2, 3, 31, 32, 33, 64}
BuildSizes == {<<4, 3>>, <<10, 10>>, <<20, 20>>}

InitUnit ==
    /\ canvas = <<4, 3>>
    /\ InitProcess
    /\ rng = 0
    /\ InitNoTool
    /\ InitNoManager
    /\ InitNoGame
    /\ InitNoBuild

NextUnit ==
    \/ \E a \in SmallRasters : ApplySmooth(a.w, a.h, a.d)
    \/ \E s \in LargeSizes : ApplySmooth(s[1], s[2], RasterOfRule(s[1], s[2]))
    \/ \E a \in SmallRasters, color \in LayerColors, opacity \in LayerOpacities :
         ApplyLayer(a.w, a.h, color, opacity, a.d)
    \/ \E s \in LimitSizes : ApplyLimits(s[1], s[2])
    \/ \E x \in TurbulenceCoordinates, y \in TurbulenceCoordinates, size \in TurbulenceSizes :
         ApplyTurbulence(x, y, size)
    \/ \E r \in UnitEntropy, s \in BuildSizes, n \in FieldSeedCounts :
         ApplyDensityField(r, s[1], s[2], n)
    \/ \E size \in SizeNames, cls \in {"Asteroid", "AnimatedAsteroid"} :
         ApplySplit(size, GroupsOf(cls))

SpecUnit == InitUnit /\ [][NextUnit]_vars

\* A run of tools/image_generation/create_nebula.py; something may already be
\* at the output path.
InitTool ==
    /\ InitGenerator
    /\ InitNoManager
    /\ InitNoGame
    /\ tool = [NoTool EXCEPT !.pc = "start"]
    /\ out_file \in {"absent", "old"}

NextTool ==
    \/ \E seed \in SeedArgs, stars \in StarArgs, theme \in ThemeArgs : ToolParse(seed, stars, theme)
    \/ ToolConstruct
    \/ ToolGenerate
    \/ ToolPipeline
    \/ \E outcome \in SaveOutcomes : ToolSave(outcome)
    \/ ToolCrash

SpecTool == InitTool /\ [][NextTool]_vars

\* The game process: the settings of constants.py (BACKGROUND_SEED is None or
\* an integer, NEBULA_THEME is None or a name) and the files earlier
\* processes left.
InitBg ==
    /\ InitGenerator
    /\ canvas = <<4, 3>>
    /\ rng = 0
    /\ InitNoTool
    /\ \E seed \in SeedArgs, force \in BOOLEAN, theme \in {None, "fire"} :
         config = [BACKGROUND_SEED |-> seed, imported_seed |-> seed,
                   FORCE_REGENERATE_BACKGROUND |-> force, NEBULA_THEME |-> theme]
    /\ fs \in [image : {"absent", "old", "partial"}, cache : {"absent", "old"}]
    /\ mgr = NewManager
    /\ thread = NoThread
    /\ screen = "nothing"
    /\ regen = NoRegen
    /\ InitNoGame

NextBg ==
    \/ Initialize
    \/ \E outcome \in RunOutcomes, theme \in ThemeNames : ThreadGenerate(outcome, theme)
    \/ \E copied \in BOOLEAN : ThreadCache(copied)
    \/ ThreadLoad
    \/ ThreadFinally
    \/ Render
    \/ UseFallback
    \/ \E new_seed \in NewSeeds, outcome \in RunOutcomes, theme \in ThemeNames :
         RegenerateBackground(new_seed, outcome, theme)

SpecBg == InitBg /\ [][NextBg]_vars

\* The statements of the generation thread: a started thread that is
\* scheduled takes its next one. subprocess.run returns or raises within
\* BACKGROUND_GENERATION_TIMEOUT; the game loop and the caller of
\* regenerate_background need not act at all.
ThreadStep ==
    \/ \E outcome \in RunOutcomes, theme \in ThemeNames : ThreadGenerate(outcome, theme)
    \/ \E copied \in BOOLEAN : ThreadCache(copied)
    \/ ThreadLoad
    \/ ThreadFinally

SpecBgFair == InitBg /\ [][NextBg]_vars /\ WF_vars(ThreadStep)

\* main() after background_manager.initialize() is due, with a configured
\* BACKGROUND_SEED (no generation thread) and either setting of
\* SHOW_LOADING_SCREEN.
InitGame ==
    /\ canvas = <<4, 3>>
    /\ InitProcess
    /\ rng = 0
    /\ InitNoBuild
    /\ InitNoTool
    /\ config = [BACKGROUND_SEED |-> 7, imported_seed |-> 7,
                 FORCE_REGENERATE_BACKGROUND |-> FALSE, NEBULA_THEME |-> None]
    /\ fs = [image |-> "old", cache |-> "absent"]
    /\ mgr = NewManager
    /\ thread = NoThread
    /\ screen = "nothing"
    /\ regen = NoRegen
    /\ \E show \in BOOLEAN : game = [NoGame EXCEPT !.pc = "start", !.show_loading = show]

\* The frame times, in ms, and the radii Asteroid is called with.
DtChoices == {500, 800}
AsteroidRadii == {10, 20}

\* The asteroids successive shots can hit in one pass.
TargetLists(g) ==
    LET in_group == Members(g.sprites, "asteroids")
    IN {<<>>} \cup {<<a>> : a \in in_group} \cup {<<a, b>> : a \in in_group, b \in in_group}

\* kind = random.randint(1, ASTEROID_KINDS) is drawn in a pass that spawns.
SpawnKinds(g, dt) ==
    IF g.spawn_timer + dt > ASTEROID_SPAWN_RATE THEN 1 .. ASTEROID_KINDS ELSE {1}

\* An asteroid can overlap the player when the group has one.
Hits(g) == IF Members(g.sprites, "asteroids") = {} THEN {FALSE} ELSE BOOLEAN

NextGame ==
    \/ Initialize
    \/ ShowLoading
    \/ \E event \in Events : LoadingFrame(event)
    \/ SetupGame
    \/ \E event \in Events, dt \in DtChoices, key_space \in BOOLEAN :
         \E kind \in SpawnKinds(game, dt), hit \in Hits(game),
            targets \in TargetLists(game), gone \in 0 .. game.shots :
           Frame(event, dt, key_space, kind, hit, targets, gone)
    \/ \E radius \in AsteroidRadii : ConstructAsteroid(radius)

SpecGame == InitGame /\ [][NextGame]_vars

\* main runs on: a loop that can take its next pass takes it.
SpecGameFair ==
    /\ InitGame /\ [][NextGame]_vars
    /\ WF_vars(Initialize) /\ WF_vars(ShowLoading) /\ WF_vars(SetupGame)
    /\ WF_vars(\E event \in Events : LoadingFrame(event))

\* ------------------------------------------------------ properties
\* Two finished calls were asked for the same image.
SameRequest(a, b) ==
    /\ a.width = b.width /\ a.height = b.height
    /\ a.stars = b.stars /\ a.theme = b.theme /\ a.colors_arg = b.colors_arg

\* Both calls ran on a generator constructed for them with the same integer seed.
SameSeedFresh(a, b) == a.fresh /\ b.fresh /\ a.seed # NoSeed /\ a.seed = b.seed

\* C1 (determinism): two generate_nebula calls, each on a freshly constructed
\* generator, with the same width, height, star count, theme and the same
\* seed that is not None, start from the same random stream, consume it
\* alike and return the same image (or fail alike).
Determinism ==
    \A i, j \in 1 .. Len(history) :
        LET a == history[i]
            b == history[j]
        IN (SameSeedFresh(a, b) /\ SameRequest(a, b))
             => /\ a.ok = b.ok /\ a.err = b.err
                /\ a.image = b.image
                /\ a.rng_start = b.rng_start /\ a.rng_after = b.rng_after

\* Two seeded calls for the same image, the second constructed when the
\* process-wide generator was in another state than before the first; both
\* returned an image with a star and deposits in it.
DeterminismWitness ==
    /\ Len(history) = 2
    /\ SameSeedFresh(history[1], history[2]) /\ SameRequest(history[1], history[2])
    /\ history[1].ok /\ history[1].stars = 1
    /\ history[1].rng_before # history[2].rng_before
    /\ \E k \in 3 .. Len(history[1].image) : history[1].image[k].seeds # <<>>

\* C2 (dimension fidelity, as stated): every call with width >= 1 and
\* height >= 1 and a colour list that is not empty returns an image of the
\* requested size.
DimensionFidelity ==
    \A i \in 1 .. Len(history) :
        LET a == history[i]
        IN (a.width >= 1 /\ a.height >= 1 /\ a.colors # <<>>)
             => a.ok /\ a.size = <<a.width, a.height>>

\* C3 (InvalidParameter, as stated): a call with width <= 0, height <= 0 or a
\* theme name outside the five is rejected before any stage ran and returns
\* no image.
InvalidParameterRejected ==
    \A i \in 1 .. Len(history) :
        LET a == history[i]
        IN (a.width <= 0 \/ a.height <= 0
              \/ (a.colors_arg = NoColors /\ a.theme \notin ThemeNames))
             => ~a.ok /\ a.stages = <<>>

\* C4 (statelessness, as stated): a finished call (the construction of its
\* generator included) leaves the process-wide random module in the state it
\* had before.
Statelessness ==
    \A i \in 1 .. Len(history) : history[i].rng_after = history[i].rng_before

\* What of a composited item does not depend on the colours.
Structure(item) ==
    IF item.kind \in {"gradient", "stars"} THEN item
    ELSE [kind |-> item.kind, index |-> item.index, opacity |-> item.opacity,
          blur |-> item.blur, seeds |-> item.seeds, density |-> item.density,
          norm |-> item.norm, rng_in |-> item.rng_in, rng_out |-> item.rng_out]

StructureOf(image) == [k \in 1 .. Len(image) |-> Structure(image[k])]

\* Two calls that differ in the named theme only.
ThemesApart(a, b) ==
    /\ SameSeedFresh(a, b)
    /\ a.width = b.width /\ a.height = b.height /\ a.stars = b.stars
    /\ a.colors_arg = NoColors /\ b.colors_arg = NoColors
    /\ a.theme \in ThemeNames /\ b.theme \in ThemeNames /\ a.theme # b.theme

\* C5 (theme independence of structure): two calls with the same seed, size
\* and star count and two different named themes draw the same random values:
\* same stars, same seed points, same density rasters in every layer, same
\* index of the core colour; the colour lists differ.
ThemeIndependence ==
    \A i, j \in 1 .. Len(history) :
        LET a == history[i]
            b == history[j]
        IN ThemesApart(a, b)
             => /\ a.ok = b.ok /\ a.err = b.err
                /\ StructureOf(a.image) = StructureOf(b.image)
                /\ a.rng_after = b.rng_after
                /\ a.colors # b.colors

\* Two finished images of two themes, with a star and painted layer pixels.
ThemeIndependenceWitness ==
    /\ Len(history) = 2
    /\ ThemesApart(history[1], history[2])
    /\ history[1].ok /\ history[2].ok /\ history[1].stars = 1
    /\ Len(history[1].image) = 7
    /\ \E p \in DOMAIN history[1].image[3].px :
         /\ history[1].image[3].px[p][4] > 0
         /\ history[1].image[3].px[p] # history[2].image[3].px[p]

\* The stages of a call with n colours, in the order of the code.
CanonicalStages(n) ==
    <<"gradient", "stars">> \o [k \in 1 .. n |-> "gas"] \o <<"core", "flatten">>

IsPrefix(s, t) == Len(s) <= Len(t) /\ SubSeq(t, 1, Len(s)) = s

Kinds(image) == [k \in 1 .. Len(image) |-> image[k].kind]

\* C6 (pipeline order): the stages a call has entered are always a prefix of
\* gradient, stars, gas (once per colour), core, flatten; what has been
\* composited is a prefix of gradient, stars, the gas layers in palette order,
\* core, each put onto the result of the stage before; a call that returns
\* has run all of them once, the core after the last gas layer.
PipelineOrder ==
    LET n == Len(call.colors)
    IN /\ IsPrefix(stages, CanonicalStages(n))
       /\ IsPrefix(Kinds(result), SubSeq(CanonicalStages(n), 1, n + 3))
       /\ \A k \in 3 .. Len(result) :
            result[k].kind = "gas"
              => result[k].index = k - 3 /\ result[k].color = call.colors[k - 2]
       /\ pc = "done" => stages = CanonicalStages(n) /\ Len(result) = n + 3
       /\ \A i \in 1 .. Len(history) :
            history[i].ok => history[i].stages = CanonicalStages(Len(history[i].colors))

\* A call over a palette of four colours has run to its end.
PipelineOrderWitness ==
    /\ pc = "done"
    /\ Len(call.colors) = 4
    /\ Len(result) = 7
    /\ result[7].kind = "core"

InByte(v) == v \in 0 .. 255

\* The values an item wrote into its raster.
ItemInRange(item) ==
    CASE item.kind = "gradient" ->
           \A p \in DOMAIN item.px : \A c \in 1 .. 3 : InByte(item.px[p][c])
      [] item.kind = "stars" ->
           \A k \in 1 .. Len(item.stars) : \A c \in 1 .. 4 : InByte(StarFill(item.stars[k])[c])
      [] OTHER ->
           \A p \in DOMAIN item.px :
              /\ \A c \in 1 .. 4 : InByte(item.px[p][c])
              /\ item.norm[p] \in 0 .. NormQ

\* C7 (range invariants): every normalized density value is in [0, 1]
\* (0 .. NormQ here) and every colour and alpha value the gradient base, the
\* star field and the layer renderer write is in 0 .. 255.
RangeInvariants == \A k \in 1 .. Len(result) : ItemInRange(result[k])

\* A layer pixel at the density maximum whose channel the clamp cut to 255,
\* on a gradient and a star.
RangeInvariantsWitness ==
    /\ Len(result) >= 3
    /\ result[2].stars # <<>>
    /\ \E k \in 3 .. Len(result) : \E p \in DOMAIN result[k].px :
         /\ result[k].norm[p] = NormQ
         /\ result[k].px[p][1] = 255
         /\ result[k].px[p][4] > 0
         /\ LayerChannelUnclamped(result[k].color[1], NormQ) > 255

\* C8 (tool outcome, as stated): the tool exits with status 0 only with the
\* complete image at the output path, and after a nonzero exit the run has
\* left no file of its own there, whole or partial.
ToolOutcome ==
    tool.pc = "exit"
      => /\ tool.status = 0 => out_file = "image"
         /\ tool.status # 0 => out_file \notin {"image", "partial"}

\* The generation thread's run of the generator has failed.
ThreadRunFailed ==
    /\ thread.pc \in {"finally", "end"}
    /\ thread.outcome \in RunOutcomes \ {"ok"}

\* After a failed run of the thread nothing of it is displayed or cached.
FailedRunState ==
    ThreadRunFailed
      => /\ ~mgr.generation_complete
         /\ mgr.background_surface \notin {"thread", "partial"}
         /\ fs.cache \notin {"thread", "regen", "partial"}
         /\ regen.count = 0 => mgr.background_surface \in {"old", "fallback"}

\* The step in which a run fails (in the thread or in regenerate_background)
\* changes no field of the manager and not the cache file.
FailedRunStep ==
    ((thread.pc = "run" /\ thread'.pc = "finally")
       \/ (regen'.count > regen.count /\ ~regen'.success))
      => mgr' = mgr /\ fs'.cache = fs.cache

\* C9 (fallback on generator failure): when the generator subprocess times
\* out, exits nonzero or cannot be run, the manager keeps the background it
\* had (the image initialize() loaded, or the procedural gradient when there
\* was none to load): the surface is not replaced, generation_complete stays
\* false, the cache file is not written.
FailedRunKeepsBackground == []FailedRunState /\ [][FailedRunStep]_vars

\* A timed-out run with a cache file present and no image to load: the
\* gradient is displayed.
FailedRunWitness ==
    /\ ThreadRunFailed
    /\ thread.outcome = "timeout"
    /\ fs.cache = "old"
    /\ mgr.background_surface = "fallback"
    /\ screen = "fallback"

\* C9 as stated: after a failed run the background is a previously cached
\* image.
CachedImageSubstituted ==
    (ThreadRunFailed /\ regen.count = 0) => mgr.background_surface = "old"

RECURSIVE BuildInOrder(_)
BuildInOrder(b) ==
    IF b.order = <<>> THEN b
    ELSE LET i == Head(b.order)
             n == Len(call.colors)
             d == CreateDensityField(b.rng, gen.width, gen.height, IF i = n THEN 1 ELSE 2 + i)
         IN BuildInOrder([order |-> Tail(b.order),
                          rng |-> IF i = n THEN RngNext(d.rng) ELSE d.rng,
                          built |-> [b.built EXCEPT ![i] =
                                       [seeds |-> d.seeds, density |-> d.density,
                                        pick |-> IF i = n THEN RandChoice(d.rng, n) ELSE i]]])

\* The sequential order with its first two layers exchanged.
SwappedOrder(n) == <<1, 0>> \o [k \in 1 .. n - 1 |-> k + 1]

ThemeList == <<"default", "fire", "ice", "alien", "sunset">>

\* C11 (theme selection, as stated): a call without a colour list uses the
\* four colours of its theme when the theme is one of the five names, and,
\* when the theme is None, the four colours of the name random.choice draws
\* from the five in the state the random module has when the call begins.
ThemeSelection ==
    \A i \in 1 .. Len(history) :
        LET a == history[i]
        IN a.colors_arg = NoColors =>
             /\ a.theme \in ThemeNames =>
                  a.colors = ThemePalette(a.theme) /\ Len(a.colors) = 4
             /\ a.theme = None =>
                  a.colors = ThemePalette(ThemeList[RandChoice(a.rng_start, 5)])

\* The parameters the claim gives a composited layer of a call with colour
\* list cs on a w x h canvas.
LayerAsStated(item, cs, w, h) ==
    CASE item.kind = "gas" ->
           /\ Len(item.seeds) = 2 + item.index
           /\ item.opacity = 50 + 10 * item.index
           /\ 0 < item.opacity /\ item.opacity <= 100
           /\ item.blur = (IF w * h > 500000 THEN 2 ELSE 4)
           /\ item.color = cs[item.index + 1]
      [] item.kind = "core" ->
           /\ Len(item.seeds) = 1
           /\ item.opacity = 30
           /\ item.blur = 1
           /\ \E k \in 1 .. Len(cs) :
                 item.color = [j \in 1 .. 3 |-> Min(255, (13 * cs[k][j]) \div 10)]
      [] OTHER -> TRUE

\* C17 (layer parameters, as stated): every gas layer i of a returned image
\* has 2 + i seeds, opacity 0.5 + 0.1 * i inside (0, 1] and blur radius 2
\* above 500000 pixels, else 4; the core layer has 1 seed, opacity 0.3, blur
\* radius 1 and a colour of the list brightened by 1.3 and clamped at 255.
LayerParameters ==
    \A n \in 1 .. Len(history) :
        LET a == history[n]
        IN a.ok => /\ \A k \in 1 .. Len(a.image) :
                        LayerAsStated(a.image[k], a.colors, a.width, a.height)
                   /\ \A i \in 0 .. Len(a.colors) - 1 :
                        \E k \in 1 .. Len(a.image) :
                            a.image[k].kind = "gas" /\ a.image[k].index = i

\* C12 (particle bounds, as stated): every deposit goes to a pixel of the
\* raster and is made from a position inside the canvas bounds
\* (0 <= x < width and 0 <= y < height).
ParticleBounds ==
    particle.at # NoPixel =>
        /\ particle.at \in Pixels(particle.w, particle.h)
        /\ 0 <= particle.from[1] /\ particle.from[1] < particle.w * PosQ
        /\ 0 <= particle.from[2] /\ particle.from[2] < particle.h * PosQ

\* C13 (particle termination): no particle makes more than min(max_steps, 77)
\* deposits, a particle under 0.02 takes no further pass, and a particle
\* that started with intensity 1.0 is under 0.02 once it has made 77 passes.
ParticleTermination ==
    particle.pc # "off" =>
        /\ particle.deposits = particle.step
        /\ particle.deposits <= Min(particle.steps, 77)
        /\ (particle.step > 0 /\ 100 * particle.inten < 2 * IntQ) =>
              ParticleDone(ParticleBuild, particle)
        /\ (particle.inten0 = IntQ /\ particle.step >= 77) => 100 * particle.inten < 2 * IntQ

\* A particle that started with intensity 1.0 has made 77 deposits, the last
\* of them with an intensity of at least 0.02, and has stopped.
ParticleTerminationWitness ==
    /\ particle.pc = "stopped"
    /\ particle.inten0 = IntQ
    /\ particle.deposits = 77
    /\ 100 * particle.inten < 2 * IntQ

\* C13 as stated: no particle makes more than min(max_steps, 76) deposits.
ParticleStopsBy76 ==
    particle.pc # "off" => particle.deposits <= Min(particle.steps, 76)

\* The statements of a build after the flow field statement.
AfterFlow == {"seeds", "seed", "spawn", "step", "smooth", "done"}

\* Once a build is past its flow field statement it holds a field of its own
\* making: one vector of length 1 for every pixel, with scale
\* max(32, min(width, height) / 20); a build that has not reached the
\* statement holds none.
FlowFieldState ==
    /\ field.pc = "flow" =>
          field.flow = NoRaster /\ field.flows_built = field.builds - 1
    /\ field.pc \in AfterFlow =>
          /\ field.flows_built = field.builds
          /\ field.scale = Max(32, Min(field.w, field.h) \div 20)
          /\ DOMAIN field.flow = Pixels(field.w, field.h)
          /\ \A p \in Pixels(field.w, field.h) :
                Abs(field.flow[p].fx * field.flow[p].fx
                    + field.flow[p].fy * field.flow[p].fy - 1000000) <= 1000

\* No statement after the flow field statement writes the field or builds
\* another, up to the return of the build.
FlowFieldStep ==
    (field.pc \in AfterFlow \ {"done"}) =>
        field'.flow = field.flow /\ field'.flows_built = field.flows_built

\* C18 (flow field ordering): every build computes its own complete flow
\* field before its first particle step, and nothing recomputes or modifies
\* it while the particles are advected.
FlowFieldOrdering == []FlowFieldState /\ [][FlowFieldStep]_vars

\* The second build of a process has made deposits, reading the second field.
FlowFieldWitness ==
    /\ field.builds = 2
    /\ field.pc = "step"
    /\ field.st.deposits > 0
    /\ field.flows_built = 2

\* C19 (seed placement): a build places exactly num_seeds seeds, each with
\* floor(0.1 w) <= x <= floor(0.9 w) and floor(0.1 h) <= y <= floor(0.9 h),
\* on a pixel of the raster, with intensity in [0.8, 1.0]; a particle that has
\* made no pass yet is at the position and has the intensity of the seed
\* whose turn it is.
SeedPlacement ==
    field.pc \in AfterFlow \ {"seeds"} =>
        /\ Len(field.seeds) = field.num_seeds
        /\ \A k \in 1 .. Len(field.seeds) :
              LET sd == field.seeds[k]
              IN /\ field.w \div 10 <= sd.x /\ sd.x <= (9 * field.w) \div 10
                 /\ field.h \div 10 <= sd.y /\ sd.y <= (9 * field.h) \div 10
                 /\ <<sd.y, sd.x>> \in Pixels(field.w, field.h)
                 /\ 10 * sd.inten >= 8 * IntQ /\ sd.inten <= IntQ
        /\ (field.pc = "step" /\ field.st.step = 0) =>
              LET sd == field.seeds[Len(field.seeds) - Len(field.todo)]
              IN /\ field.st.x = sd.x * PosQ
                 /\ field.st.y = sd.y * PosQ
                 /\ field.st.inten = sd.inten

\* The last particle of the third of three seeds starts, the seeds being at
\* three different positions.
SeedPlacementWitness ==
    /\ field.pc = "step"
    /\ field.st.step = 0
    /\ field.num_seeds = 3
    /\ field.todo = <<>>
    /\ field.left = 0
    /\ Cardinality({<<field.seeds[k].x, field.seeds[k].y>> : k \in 1 .. 3}) = 3

\* A pixel of the first or last row or column.
OnBorder(p, w, h) == p[1] = 0 \/ p[1] = h - 1 \/ p[2] = 0 \/ p[2] = w - 1

\* (N + S + E + W + 2 * center) / 6 of raster d at an interior pixel p.
WeightedMean(d, p) ==
    (d[<<p[1] - 1, p[2]>>] + d[<<p[1] + 1, p[2]>>] + d[<<p[1], p[2] - 1>>]
     + d[<<p[1], p[2] + 1>>] + 2 * d[p]) \div 6

\* The sampled interior pixels all of whose neighbours are sampled too.
InteriorSamples(w, h) ==
    {p \in Samples(w, h) :
        /\ ~OnBorder(p, w, h)
        /\ {<<p[1] - 1, p[2]>>, <<p[1] + 1, p[2]>>, <<p[1], p[2] - 1>>, <<p[1], p[2] + 1>>}
              \subseteq Samples(w, h)}

\* C14 (smoothing frame, as stated): when the pass runs, every interior
\* pixel of the returned raster is the weighted mean of the raster before
\* the pass, and every border pixel keeps the density it had before.
SmoothingFrame ==
    (probe.fn = "smooth" /\ probe.w * probe.h < 500000) =>
        /\ \A p \in InteriorSamples(probe.w, probe.h) :
              probe.after[p] = WeightedMean(probe.before, p)
        /\ \A p \in Samples(probe.w, probe.h) :
              OnBorder(p, probe.w, probe.h) => probe.after[p] = probe.before[p]

\* The returned raster differs from the accumulated one at a sampled pixel.
Smoothed == \E p \in Samples(probe.w, probe.h) : probe.after[p] # probe.before[p]

\* A raster the pass cannot leave as it is: a border sample is not 0.
Smoothable ==
    \E p \in Samples(probe.w, probe.h) : OnBorder(p, probe.w, probe.h) /\ probe.before[p] # 0

\* C15 (smoothing threshold): on a canvas of 500000 pixels or more the
\* accumulated raster is returned unchanged; under 500000 pixels the pass has
\* run: the interior pixels hold the weighted mean, and a raster with a
\* border pixel that is not 0 comes back changed.
SmoothingThreshold ==
    probe.fn = "smooth" =>
        /\ probe.w * probe.h >= 500000 => ~Smoothed
        /\ probe.w * probe.h < 500000 =>
              /\ \A p \in InteriorSamples(probe.w, probe.h) :
                    probe.after[p] = WeightedMean(probe.before, p)
              /\ Smoothable => Smoothed

\* A raster of exactly 500000 pixels that the pass would change is returned
\* as it was.
SmoothingThresholdWitness ==
    /\ probe.fn = "smooth"
    /\ probe.w * probe.h = 500000
    /\ Smoothable
    /\ ~Smoothed

\* C16 (renderer threshold): the layer is an RGBA raster of the canvas
\* dimensions; a pixel has nonzero alpha only if its density is strictly
\* above 0.05 of the raster's maximum; and when the maximum is 0 the raster
\* is not normalized and every pixel is fully transparent.
RendererThreshold ==
    probe.fn = "layer" =>
        LET l == probe.layer
            d == probe.density
            m == probe.max
        IN /\ l.ok
           /\ DOMAIN l.px = Pixels(probe.w, probe.h)
           /\ \A p \in DOMAIN l.px :
                 /\ Len(l.px[p]) = 4
                 /\ \A k \in 1 .. 4 : l.px[p][k] \in 0 .. 255
                 /\ l.px[p][4] # 0 => (m > 0 /\ 20 * d[p] > m)
           /\ m = 0 => /\ l.norm = d
                       /\ \A p \in DOMAIN l.px : l.px[p] = <<0, 0, 0, 0>>

\* A layer with a pixel exactly at 0.05 of the maximum, which is
\* transparent, and a pixel just above it, which is not.
RendererThresholdWitness ==
    /\ probe.fn = "layer"
    /\ \E p, q \in DOMAIN probe.density :
         /\ probe.density[p] > 0
         /\ 20 * probe.density[p] = probe.max
         /\ probe.layer.px[p][4] = 0
         /\ probe.density[q] = probe.density[p] + 1
         /\ probe.layer.px[q][4] > 0

\* C20 (work bound): particles_per_seed is max(200, 1000 - floor(area / 1000))
\* and max_steps is max(50, 150 - floor(area / 5000)); of two canvases the
\* one with the larger area has neither value larger; neither is under 200
\* and 50; and a build makes at most num_seeds * particles_per_seed *
\* max_steps deposits (in the model: at most num_seeds times the limits its
\* loops run with, which do not exceed those of the code).
WorkBound ==
    /\ probe.fn \in {"limits", "density"} =>
          /\ probe.particles_per_seed = Max(200, 1000 - (probe.w * probe.h) \div 1000)
          /\ probe.max_steps = Max(50, 150 - (probe.w * probe.h) \div 5000)
          /\ probe.particles_per_seed >= 200
          /\ probe.max_steps >= 50
    /\ (probe.fn = "limits" /\ probe.prev # <<>>) =>
          LET q == probe.prev[1]
          IN q.w * q.h <= probe.w * probe.h =>
               /\ q.particles_per_seed >= probe.particles_per_seed
               /\ q.max_steps >= probe.max_steps
    /\ probe.fn = "density" =>
          /\ probe.particles_run <= probe.particles_per_seed
          /\ probe.steps_run <= probe.max_steps
          /\ probe.deposits <= probe.num_seeds * probe.particles_run * probe.steps_run
          /\ probe.deposits <= probe.num_seeds * probe.particles_per_seed * probe.max_steps

\* A build in which every particle of every seed made a deposit in every
\* pass the model runs.
WorkBoundWitness ==
    /\ probe.fn = "density"
    /\ probe.num_seeds = 3
    /\ probe.deposits = probe.num_seeds * probe.particles_run * probe.steps_run
    /\ probe.deposits > 0

\* floor(log2(n)) for n >= 1.
RECURSIVE FloorLog2(_)
FloorLog2(n) == IF n < 2 THEN 0 ELSE 1 + FloorLog2(n \div 2)

\* C21 (turbulence): for a size >= 1 the octave loop visits size / 2^k for
\* k = 0 .. floor(log2(size)) and no other, and the value returned is >= 0.
TurbulenceOctaves ==
    (probe.fn = "turbulence" /\ probe.size >= 1) =>
        /\ probe.octaves = 0 .. FloorLog2(probe.size)
        /\ Cardinality(probe.octaves) = FloorLog2(probe.size) + 1
        /\ \A k \in probe.octaves : Pow2(k) <= probe.size
        /\ Pow2(FloorLog2(probe.size) + 1) > probe.size
        /\ probe.value >= 0

\* A size that is not a power of two, six octaves, one of them with a
\* negative noise value, and a positive sum.
TurbulenceWitness ==
    /\ probe.fn = "turbulence"
    /\ probe.size = 33
    /\ Cardinality(probe.octaves) = 6
    /\ \E k \in probe.octaves : Noise2d(probe.x, probe.y, probe.size, k) < 0
    /\ probe.value > 0

\* use_fallback() has returned while the generation thread has not reached
\* its finally clause: is_generating is false only by use_fallback there
\* (render clears it after generation_complete, which the thread sets in its
\* last step before the finally clause).
FallbackTaken ==
    /\ mgr.initialized
    /\ ~mgr.is_generating
    /\ thread.pc \in {"run", "cache", "load"}

\* C22 (use_fallback stops generation): after use_fallback() has returned, no
\* step of the generation thread replaces background_surface or makes
\* generation_complete true.
FallbackStopsGeneration ==
    [][(FallbackTaken /\ thread' # thread)
          => /\ mgr'.background_surface = mgr.background_surface
             /\ ~mgr'.generation_complete]_vars

\* C23 (regenerate_background): a call with a new_seed that is not None runs
\* the generator with --seed new_seed, and when the call has returned, on
\* success or on failure, BACKGROUND_SEED of the constants module has the
\* value it had before the call.
RegenerateSeed ==
    (regen.count > 0 /\ regen.new_seed # NoSeed)
        => /\ regen.outcome # "missing" => regen.seed_arg = regen.new_seed
           /\ config.BACKGROUND_SEED = regen.original_seed

\* The half of C23 that holds: BACKGROUND_SEED is back at its value.
RegenerateRestoresSeed ==
    regen.count > 0 => config.BACKGROUND_SEED = regen.original_seed

\* C24 (is_generating ends): once initialize() has started the generation
\* thread, is_generating becomes false whatever the subprocess does, as long
\* as the thread is scheduled; and no step after initialize() sets it to true.
GeneratingEnds ==
    /\ mgr.is_generating ~> ~mgr.is_generating
    /\ [][mgr'.is_generating => (mgr.is_generating \/ ~mgr.initialized)]_vars

\* The thread has run to its end after a timed-out subprocess, nobody else
\* has touched the flag, and the flag is false.
GeneratingEndsWitness ==
    /\ thread.pc = "end"
    /\ thread.outcome = "timeout"
    /\ ~mgr.generation_complete
    /\ screen = "nothing"
    /\ ~mgr.is_generating

\* The images a run of the generator wrote during this process.
NewImages == {"thread", "regen"}

\* generation_complete implies a thread whose subprocess exited 0 and a
\* displayed surface loaded from a newly generated image; after initialize()
\* there is a surface, and render has never filled the screen with black.
BackgroundState ==
    /\ mgr.generation_complete
         => /\ thread.outcome = "ok" /\ thread.success
            /\ thread.pc \in {"finally", "end"}
            /\ mgr.background_surface \in NewImages
    /\ mgr.initialized => mgr.background_surface # None /\ mgr.background_loaded
    /\ screen # "black"

\* generation_complete is set in the step that loads the image, and is
\* never cleared.
BackgroundStep ==
    /\ (mgr'.generation_complete /\ ~mgr.generation_complete)
         => /\ thread.pc = "load" /\ thread.outcome = "ok"
            /\ fs.image \in NewImages
            /\ mgr'.background_surface = fs.image
    /\ mgr.generation_complete => mgr'.generation_complete

\* C25 (background state): generation_complete is true only if the
\* subprocess exited 0 and the new image was loaded into background_surface;
\* once true it is never false again; after initialize() background_surface
\* is always set, so render never reaches the black fill.
BackgroundInvariants == []BackgroundState /\ [][BackgroundStep]_vars

\* The generated image is on the screen, after render showed what
\* initialize() had installed.
BackgroundWitness ==
    /\ mgr.generation_complete
    /\ mgr.background_surface = "thread"
    /\ screen = "thread"
    /\ fs.cache = "thread"

\* The asteroid group triple main sets up.
AsteroidGroups == {"updatable", "drawable", "asteroids"}

\* C26 (asteroids in the groups): every asteroid AsteroidField.spawn creates
\* and every asteroid split returns is a member of updatable, drawable and
\* asteroids.
AsteroidsJoinGroups ==
    \A i \in 1 .. Len(game.created) :
        game.created[i].by \in {"spawn", "split"}
            => AsteroidGroups \subseteq game.created[i].groups

\* The main loop has been entered.
InLoop == game.game_state # None

\* The lives are in range, and the game is over exactly at 0 lives.
LivesState ==
    InLoop => /\ game.lives \in 0 .. PLAYER_LIVES
              /\ game.game_state \in {PLAYING, GAME_OVER}
              /\ game.game_state = GAME_OVER <=> game.lives = 0

\* A pass takes at most one life; GAME_OVER is left only by a pass that took
\* SPACE from the queue, with all lives back, the game reset and PLAYING;
\* any other pass of a game that is over leaves the lives at 0.
LivesStep ==
    InLoop =>
        /\ game'.lives >= game.lives - 1
        /\ (game.game_state = GAME_OVER /\ game'.game_state # GAME_OVER)
              => /\ game'.event = "space"
                 /\ game'.lives = PLAYER_LIVES
                 /\ game'.game_state = PLAYING
                 /\ game'.reset_done
                 /\ Members(game'.sprites, "asteroids") = {}
                 /\ ~IsVulnerable(game'.invulnerable_timer)
        /\ (game.game_state = GAME_OVER /\ game' # game /\ game'.event = "space")
              => game'.game_state = PLAYING

\* C27 (lives state machine): in every state of the main loop
\* 0 <= lives <= PLAYER_LIVES and game_state is GAME_OVER exactly when lives
\* is 0; a frame removes at most one life; the only way out of GAME_OVER is
\* SPACE, which sets lives to PLAYER_LIVES, resets the game and returns to
\* PLAYING.
LivesMachine == []LivesState /\ [][LivesStep]_vars

\* A game restarted from game over: all lives, after a life had been lost
\* that followed a reset.
LivesWitness ==
    /\ game.pc = "loop"
    /\ game.game_state = PLAYING
    /\ game.lives = PLAYER_LIVES
    /\ game.event = "space"
    /\ game.last_loss.after_reset
    /\ game.invulnerable_timer > 0

\* C28 (invulnerability after reset): a life lost after a reset_game is lost
\* when the frame times since that reset add up to 2.0 s or more.
InvulnerableAfterReset ==
    game.last_loss.after_reset => game.last_loss.accumulated >= RESET_INVULNERABLE

\* A life lost after the reset of a restart from game over (lives had to be
\* back at PLAYER_LIVES for the count to be one below it after a reset).
InvulnerableWitness ==
    /\ game.pc = "loop"
    /\ game.last_loss.after_reset
    /\ game.lives = PLAYER_LIVES - 1
    /\ game.last_loss.accumulated >= RESET_INVULNERABLE

\* The sprites of a size in a list.
OfSize(objs, size) == {i \in 1 .. Len(objs) : objs[i].size = size}

\* C29 (splitting): split() removes the asteroid it is called on from its
\* groups and returns 3 medium asteroids for a large one, 2 small ones for a
\* medium one, none for a small one; a chain of splits has at most 3 calls,
\* and an asteroid has at most 3 medium and 6 small descendants.
SplitTree ==
    probe.fn = "split" =>
        /\ probe.groups_after = {}
        /\ probe.size = "large"
             => Len(probe.returned) = 3 /\ OfSize(probe.returned, "medium") = 1 .. 3
        /\ probe.size = "medium"
             => Len(probe.returned) = 2 /\ OfSize(probe.returned, "small") = 1 .. 2
        /\ probe.size = "small" => probe.returned = <<>>
        /\ probe.depth <= 3
        /\ Cardinality(OfSize(probe.descendants, "medium")) <= 3
        /\ Cardinality(OfSize(probe.descendants, "small")) <= 6
        /\ OfSize(probe.descendants, "large") = {}

\* A large asteroid of the asteroids group split down to nothing: 3 medium
\* and 6 small descendants in a chain of 3 splits.
SplitTreeWitness ==
    /\ probe.fn = "split"
    /\ probe.size = "large"
    /\ "asteroids" \in probe.groups
    /\ Cardinality(OfSize(probe.descendants, "medium")) = 3
    /\ Cardinality(OfSize(probe.descendants, "small")) = 6
    /\ probe.depth = 3

\* C30 (loading screen exit): once the loading screen is shown, a press of
\* SPACE leads to the end of the loading loop and to the game.
LoadingEnds == game.space_pressed ~> game.pc = "loop"

\* The first half of C30: no pass of the loading loop ends it with
\* loading_complete.
LoadingNeverCompletes == game.pc # "loaded"
====
